---------------------------- MODULE Spec2Model ----------------------------
(***************************************************************************)
(* A model of the Gigue binary generator (gigue/builder.py and             *)
(* gigue/generator.py).                                                    *)
(*                                                                         *)
(* Two specifications are defined over one set of variables:               *)
(*   SpecBuilder  the static methods of InstructionBuilder, each applied   *)
(*                to inputs drawn from bounded sets;                       *)
(*   SpecGen      the Generator / TrampolineGenerator pipeline main().     *)
(*                                                                         *)
(* TLC integers are 32 bits wide, Python integers are unbounded: a value   *)
(* that can reach 2^32 (offset_high, the displacement of an auipc+jalr     *)
(* pair) is kept as a pair <<pages, rest>> standing for pages*4096 + rest, *)
(* with 0 <= rest < 4096.                                                  *)
(***************************************************************************)
EXTENDS Integers, Sequences, FiniteSets, TLC

VARIABLES
    call,           \* the last InstructionBuilder call: [op, args, ret]
    \* the arguments of Generator.__init__ and the fields it computes
    config, jit_start_address, interpreter_start_address, jit_method_size,
    call_size,
    \* JIT elements
    method_count, pic_count, jit_elements, call_depth_dict,
    trampolines, trampoline_instructions,
    \* the locals of fill_jit_code and the position of patch_jit_calls
    current_address, current_method_count, patch_index,
    \* interpretation loop
    interpreter_instructions, interpreter_prologue_size,
    interpreter_epilogue_size,
    \* machine code, bytes, binaries and the files written
    jit_machine_code, interpreter_machine_code, jit_bytes, interpreter_bytes,
    jit_bin, interpreter_bin, fills_bin, full_bin, data_bin, ss_bin, files,
    \* the step main() is at, and the exception that ended it
    pc, exc

bvars == <<call>>

initvars ==
    <<config, jit_start_address, interpreter_start_address, jit_method_size,
      call_size>>

fillvars ==
    <<method_count, pic_count, jit_elements, call_depth_dict, trampolines,
      trampoline_instructions, current_address, current_method_count>>

interpvars ==
    <<interpreter_instructions, interpreter_prologue_size,
      interpreter_epilogue_size>>

emitvars ==
    <<jit_machine_code, interpreter_machine_code, jit_bytes,
      interpreter_bytes, jit_bin, interpreter_bin, fills_bin, full_bin,
      data_bin, ss_bin, files>>

gvars == <<initvars, fillvars, patch_index, interpvars, emitvars, pc, exc>>

vars == <<bvars, gvars>>

-----------------------------------------------------------------------------
(* gigue/constants.py: register conventions *)

RA == 1
SP == 2
HIT_CASE_REG == 5
CALL_TMP_REG == 6
CMP_REG == 7
RIMI_SSP_REG == 28
DATA_REG == 31

\* s0 .. s11
CALLEE_SAVED_REG == <<8, 9, 18, 19, 20, 21, 22, 23, 24, 25, 26, 27>>

-----------------------------------------------------------------------------
(* Bounds of the model *)

\* radius of the neighbourhoods of the interesting offsets that are sampled
OffsetSpan == 8

\* the 4 KiB pages and the positions inside a page of the sampled offsets:
\* both ends of [-2^31, 2^31), the pages around 0, and in each page the
\* neighbourhoods of the bounds 0, 0x800 (bit 11, the sign of the low part)
\* and 0xFFF, plus 0x345 (the offset 0x12345)
OffsetPages == {-524288, -524287, -2, -1, 0, 1, 18, 524286, 524287}

OffsetRests ==
    (0 .. OffsetSpan) \cup ((2048 - OffsetSpan) .. (2048 + OffsetSpan))
        \cup ((4095 - OffsetSpan) .. 4095) \cup {837}

Offsets == {p * 4096 + r : p \in OffsetPages, r \in OffsetRests}

HitCases == 1 .. 2

SaveRegisters == {CALL_TMP_REG, RA}

\* the register lists handed to the random builders
RegisterLists == {<<10>>, <<10, 11>>}

\* data region sizes: every size up to MaxSmallData, one size below 0x7FF
\* (the data size of the tests) and one above
MaxSmallData == 12

DataSizes == (1 .. MaxSmallData) \cup {1024, 4096}

\* the largest body (in instructions) of the methods whose jumps are built
MaxBodySize == 8

MethodAddresses == {4096, 65536}

\* the arguments of build_prologue and build_epilogue: the registers
\* s0..s(used_s_regs - 1) saved, the local variables, with 242 the most an
\* addi of the frame size can hold with the twelve registers and ra
UsedSRegs == 0 .. 12

LocalVarNbs == {0, 1, 2, 242}

\* the arguments of build_switch_case: case numbers up to the largest a
\* 12-bit addi holds, offsets to a method before and after the case up to the
\* reach of jal, the default registers and the ones that coincide or are x0
CaseNumbers == {0, 1, 3, 2047}

SwitchOffsets == {-1048576, -8, 0, 8, 256, 1048572}

SwitchRegs == {0, HIT_CASE_REG, CMP_REG}

\* the register lists a generator is built with: with and without the data
\* register and the shadow stack pointer of RIMI
SuppliedRegisters == { <<10, 11>>, <<10, 31>>, <<31, 28, 10>> }

\* the weights of the formats R, I, U, J, B, S, L: all on one format, on
\* several, on all, on none
WeightVectors ==
    { [k \in 1 .. 7 |-> IF k = f THEN 1 ELSE 0] : f \in 1 .. 7 }
        \cup { <<0, 3, 0, 1, 1, 0, 2>>, <<1, 1, 1, 1, 1, 1, 1>>,
               <<0, 0, 0, 0, 0, 0, 0>> }

\* the max_offset a random instruction is built with: none to several
\* instructions of the body left
MaxOffsets == {0, 8, 20}

\* the draws of the truncated normal laws on [0, 1] are the fractions
\* n / SampleDen, n in 0 .. SampleDen
SampleDen == 2

\* the values drawn from a Poisson law of non-zero mean
PoissonDraws == {0, 1, 2}

\* the largest number of methods asked for
MaxNbMethods == 3

\* the configurations of the generators: a class with its
\* interpreter_start_address and jit_start_address as given, aligned or not,
\* 128 and 160 bytes apart, one in the wrong order, and one with the JIT code
\* where the calls of the interpretation loop start
Layouts ==
    { <<"Generator", 4098, 4226>>, <<"TrampolineGenerator", 4096, 4257>>,
      <<"Generator", 4226, 4096>>, <<"Generator", 4096, 4144>>,
      <<"Generator", 4096, 4096>> }

\* jit_size: 18, and 2, too small for three methods
JitSizes == {2, 18}

\* (call_depth_mean, call_occupation_mean, pics_ratio): leaf methods only;
\* methods and PICs whose methods call; PICs only, of methods with call
\* sites and no callee
Profiles == { <<0, 0, 0>>, <<1, SampleDen, 1>>, <<0, SampleDen, SampleDen>> }

\* the generator classes of gigue.rimi.rimi_generator, which take a
\* shadow_stack_size, and the sizes a run is configured with
RimiClasses ==
    {"RIMIShadowStackTrampolineGenerator", "RIMIFullTrampolineGenerator"}

GeneratorClasses == {"Generator", "TrampolineGenerator"} \cup RimiClasses

ShadowStackSizes == {0, 8, 16, 100}

Configs ==
    { [cls |-> l[1],
       interpreter_start_address |-> l[2], jit_start_address |-> l[3],
       jit_size |-> js, jit_nb_methods |-> n,
       method_variation_mean |-> 0, method_variation_stdev |-> 0,
       call_depth_mean |-> pf[1],
       call_occupation_mean |-> pf[2], call_occupation_stdev |-> 0,
       pics_ratio |-> pf[3], pics_mean_case_nb |-> 1,
       data_size |-> 8, data_generation_strategy |-> "zeroes"] :
        l \in Layouts, js \in JitSizes, n \in 1 .. MaxNbMethods,
        pf \in Profiles }

-----------------------------------------------------------------------------
(* Generic helpers *)

Range(s) == {s[i] : i \in DOMAIN s}

Min(a, b) == IF a < b THEN a ELSE b

Max(a, b) == IF a < b THEN b ELSE a

\* Wide values: <<pages, rest>> = pages * 4096 + rest
Wide(pages, rest) == <<pages + (rest \div 4096), rest % 4096>>

WideOfInt(n) == <<n \div 4096, n % 4096>>

WideAdd(a, b) == Wide(a[1] + b[1], a[2] + b[2])

\* Python's  x & 0xFFF  on an unbounded two's complement integer
AndFFF(x) == x % 4096

\* Python's  x & 0xFFFFF000 : bits 12..31 of x, a value in [0, 2^32)
AndFFFFF000(x) == <<(x \div 4096) % 1048576, 0>>

\* Python's  x & 0x800 : bit 11 of x
And800(x) == IF (x \div 2048) % 2 = 1 THEN 2048 ELSE 0

\* Python's  v << 1  for a value below 4096
Shl1(v) == WideOfInt(2 * v)

\* sign extension of a 12 bit field
Sext12(v) == IF v % 4096 >= 2048 THEN (v % 4096) - 4096 ELSE v % 4096

\* sign extension of a 20 bit field (the upper immediate, in pages)
Sext20(p) == IF p % 1048576 >= 524288 THEN (p % 1048576) - 1048576 ELSE p % 1048576

-----------------------------------------------------------------------------
(* gigue/instructions.py: an instruction is a record; the fields a format   *)
(* does not use are 0.  The immediate of a U instruction is a wide value:  *)
(* imm_pages * 4096 + imm.                                                 *)

Instr(name, rd, rs1, rs2, imm) ==
    [name |-> name, rd |-> rd, rs1 |-> rs1, rs2 |-> rs2, imm |-> imm,
     imm_pages |-> 0]

IInstruction(name, rd, rs1, imm) == Instr(name, rd, rs1, 0, imm)

UInstruction(name, rd, imm) ==
    [name |-> name, rd |-> rd, rs1 |-> 0, rs2 |-> 0, imm |-> imm[2],
     imm_pages |-> imm[1]]

SInstruction(name, rs1, rs2, imm) == Instr(name, 0, rs1, rs2, imm)

BInstruction(name, rs1, rs2, imm) == Instr(name, 0, rs1, rs2, imm)

JInstruction(name, rd, imm) == Instr(name, rd, 0, 0, imm)

RInstruction(name, rd, rs1, rs2) == Instr(name, rd, rs1, rs2, 0)

\* IInstruction.nop: addi x0, x0, 0
Nop == IInstruction("addi", 0, 0, 0)

\* IInstruction.ret: jalr x0, ra, 0
Ret == IInstruction("jalr", 0, RA, 0)

\* IInstruction.jr(rs1): jalr x0, rs1, 0
Jr(rs1) == IInstruction("jalr", 0, rs1, 0)

-----------------------------------------------------------------------------
(* Results of a call: a value, or the exception that was raised *)

Returned(v) == [exc |-> "None", value |-> v]

Raised(e) == [exc |-> e, value |-> <<>>]

\* no call made yet
NoCall == [op |-> "init", args |-> << >>, ret |-> Returned(<< >>)]

-----------------------------------------------------------------------------
(* InstructionBuilder.split_offset *)

TooCloseSigned(offset) == offset < 8

\* abs(offset) < 8, written without negating offset (-2^31 has no negation
\* in 32 bits)
TooClose(offset) == -8 < offset /\ offset < 8

HighNoCarry(offset) == AndFFFFF000(offset)

\* offset_high = (offset & 0xFFFFF000) + ((offset & 0x800) << 1)
OffsetHigh(offset) == WideAdd(AndFFFFF000(offset), Shl1(And800(offset)))

\* offset_low = offset & 0xFFF
OffsetLow(offset) == AndFFF(offset)

split_offset(offset) ==
    IF TooClose(offset)
    THEN Raised("WrongOffsetException")
    ELSE Returned(<<OffsetLow(offset), OffsetHigh(offset)>>)

-----------------------------------------------------------------------------
(* Element calls *)

build_method_base_call(offset) ==
    LET s == split_offset(offset) IN
    IF s.exc # "None" THEN s
    ELSE Returned(<< UInstruction("auipc", 1, s.value[2]),
                     IInstruction("jalr", 1, 1, s.value[1]) >>)

build_method_call(offset) ==
    LET s == split_offset(offset) IN
    IF s.exc # "None" THEN s
    ELSE Returned(<< UInstruction("auipc", 1, s.value[2]),
                     IInstruction("jalr", 1, 1, s.value[1]) >>)

build_pic_call(offset, hit_case, hit_case_reg) ==
    LET s == split_offset(offset) IN
    IF s.exc # "None" THEN s
    ELSE Returned(<< IInstruction("addi", hit_case_reg, 0, hit_case),
                     UInstruction("auipc", 1, s.value[2]),
                     IInstruction("jalr", 1, 1, s.value[1]) >>)

build_pc_relative_reg_save(offset, register) ==
    LET s == split_offset(offset) IN
    IF s.exc # "None" THEN s
    ELSE Returned(<< UInstruction("auipc", register, s.value[2]),
                     IInstruction("addi", register, register, s.value[1]) >>)

build_call_jit_elt_trampoline == << Jr(CALL_TMP_REG) >>

build_ret_from_jit_elt_trampoline == << Ret >>

-----------------------------------------------------------------------------
(* gigue/helpers.py *)

\* align(value, alignment): the multiple of alignment at or below value
align(value, alignment) == value - (value % alignment)

-----------------------------------------------------------------------------
(* Mnemonic pools and the access alignment *)

R_INSTRUCTIONS ==
    <<"add", "addw", "andr", "mul", "mulh", "mulhsu", "mulhu", "mulw", "orr",
      "sll", "sllw", "slt", "sltu", "sra", "sraw", "srl", "srlw", "sub",
      "subw", "xor">>

I_INSTRUCTIONS == <<"addi", "addiw", "andi", "ori", "slti", "sltiu", "xori">>

U_INSTRUCTIONS == <<"auipc", "lui">>

I_INSTRUCTIONS_LOAD == <<"lb", "lbu", "ld", "lh", "lhu">>

S_INSTRUCTIONS == <<"sb", "sd", "sh", "sw">>

B_INSTRUCTIONS == <<"beq", "bge", "bgeu", "blt", "bltu", "bne">>

\* ALIGNMENT, with its keys in their order of insertion
ALIGNMENT_KEYS == <<"b", "h", "w", "d">>

ALIGNMENT == [b |-> 1, h |-> 2, w |-> 4, d |-> 8]

\* the characters of a load or store mnemonic (key in name is a substring
\* test, and the keys have one character)
Letters(name) ==
    CASE name = "lb"  -> {"l", "b"}
      [] name = "lbu" -> {"l", "b", "u"}
      [] name = "ld"  -> {"l", "d"}
      [] name = "lh"  -> {"l", "h"}
      [] name = "lhu" -> {"l", "h", "u"}
      [] name = "sb"  -> {"s", "b"}
      [] name = "sd"  -> {"s", "d"}
      [] name = "sh"  -> {"s", "h"}
      [] name = "sw"  -> {"s", "w"}

\* the first key of ALIGNMENT found in the name (None, here 0, without one)
define_memory_access_alignment(name) ==
    LET hits == {i \in DOMAIN ALIGNMENT_KEYS : ALIGNMENT_KEYS[i] \in Letters(name)}
    IN  IF hits = {} THEN 0
        ELSE ALIGNMENT[ALIGNMENT_KEYS[CHOOSE i \in hits : \A j \in hits : i <= j]]

-----------------------------------------------------------------------------
(* Random instruction building: each builder is the set of the instructions *)
(* its random draws can produce.                                            *)

\* random.randint(a, b): both ends included
randint(a, b) == a .. b

build_random_s_instruction(registers, data_reg, data_size) ==
    { SInstruction(name, data_reg, rs2,
                   align(draw, define_memory_access_alignment(name))) :
        name \in Range(S_INSTRUCTIONS), rs2 \in Range(registers),
        draw \in randint(0, Min(data_size, 2047)) }

build_random_l_instruction(registers, data_reg, data_size) ==
    { IInstruction(name, rd, data_reg,
                   align(draw, define_memory_access_alignment(name))) :
        name \in Range(I_INSTRUCTIONS_LOAD), rd \in Range(registers),
        draw \in randint(0, Min(data_size, 2047)) }

size_offset_one_more(max_offset) ==
    {4, max_offset}
        \cup {i * 12 + (max_offset % 12) : i \in 1 .. (max_offset \div 12 + 1)}
        \cup (IF max_offset % 12 = 8 THEN {8} ELSE {})

size_offset(max_offset) ==
    {4, max_offset}
        \cup {i * 12 + (max_offset % 12) : i \in 1 .. (max_offset \div 12)}
        \cup (IF max_offset % 12 = 8 THEN {8} ELSE {})

build_random_j_instruction(registers, max_offset) ==
    { JInstruction("jal", rd, offset) :
        rd \in Range(registers), offset \in size_offset(max_offset) }

build_random_b_instruction(registers, max_offset) ==
    { BInstruction(name, rs1, rs2, offset) :
        name \in Range(B_INSTRUCTIONS),
        rs1 \in Range(registers), rs2 \in Range(registers),
        offset \in size_offset(max_offset) }

-----------------------------------------------------------------------------
(* Prologue and epilogue *)

build_switch_case_linking(case_number, method_offset, hit_case_reg, cmp_reg) ==
    << IInstruction("addi", cmp_reg, 0, case_number),
       BInstruction("bne", cmp_reg, hit_case_reg, 8),
       JInstruction("jal", RA, method_offset) >>

build_switch_case(case_number, method_offset, hit_case_reg, cmp_reg) ==
    << IInstruction("addi", cmp_reg, 0, case_number),
       BInstruction("bne", cmp_reg, hit_case_reg, 8),
       JInstruction("jal", 0, method_offset) >>

StackSpaceWithoutRa(used_s_regs, local_var_nb, contains_call) ==
    (used_s_regs + local_var_nb) * 8

StackSpace(used_s_regs, local_var_nb, contains_call) ==
    (used_s_regs + local_var_nb + (IF contains_call THEN 1 ELSE 0)) * 8

build_prologue(used_s_regs, local_var_nb, contains_call) ==
    << IInstruction("addi", SP, SP,
                    -StackSpace(used_s_regs, local_var_nb, contains_call)) >>
    \o [i \in 1 .. used_s_regs |->
            SInstruction("sd", SP, CALLEE_SAVED_REG[i], (i - 1) * 8)]
    \o (IF contains_call
        THEN << SInstruction("sd", SP, RA, used_s_regs * 8) >>
        ELSE << >>)

build_epilogue(used_s_regs, local_var_nb, contains_call) ==
    [i \in 1 .. used_s_regs |->
            IInstruction("ld", CALLEE_SAVED_REG[i], SP, (i - 1) * 8)]
    \o (IF contains_call
        THEN << IInstruction("ld", RA, SP, used_s_regs * 8) >>
        ELSE << >>)
    \o << IInstruction("addi", SP, SP,
                       StackSpace(used_s_regs, local_var_nb, contains_call)) >>
    \o << Ret >>

-----------------------------------------------------------------------------
(* gigue/method.py: the layout of a method.  A method is its prologue, its  *)
(* body of body_size instructions and its epilogue; the prologue saves the  *)
(* ten registers s0..s9, and ra when the method holds calls.                *)

MethodPrologueSize(contains_call) == Len(build_prologue(10, 0, contains_call))

MethodEpilogueSize(contains_call) == Len(build_epilogue(10, 0, contains_call))

MethodTotalSize(body_size, contains_call) ==
    MethodPrologueSize(contains_call) + body_size
        + MethodEpilogueSize(contains_call)

\* the max_offset fill_with_instructions passes for the k-th instruction of
\* the body (k from 0): the bytes from that instruction to the end of the body
BytesToEndOfBody(body_size, k) == (body_size - k) * 4

\* where a random instruction is built: the k-th instruction of the body of a
\* method at an address
BodySites ==
    UNION { { [method_address |-> a, body_size |-> n, contains_call |-> c,
               pc |-> a + (MethodPrologueSize(c) + k) * 4,
               max_offset |-> BytesToEndOfBody(n, k)] :
                a \in MethodAddresses, c \in BOOLEAN, k \in 0 .. (n - 1) } :
            n \in 1 .. MaxBodySize }

\* the ends and the middle of random.randint(a, b)
randint_sample(a, b) == {a, a + 1, b \div 2, b \div 2 + 1, b - 1, b}

\* the ends and the middle of random.randint(0, 0xFFFFFFFF), as wide values
randint_sample_32 ==
    { <<0, 0>>, <<0, 4095>>, <<1, 0>>, <<524287, 4095>>, <<524288, 0>>,
      <<1048575, 4095>> }

build_random_r_instruction(registers) ==
    { RInstruction(name, rd, rs1, rs2) :
        name \in Range(R_INSTRUCTIONS), rd \in Range(registers),
        rs1 \in Range(registers), rs2 \in Range(registers) }

build_random_i_instruction(registers) ==
    { IInstruction(name, rd, rs1, imm) :
        name \in Range(I_INSTRUCTIONS), rd \in Range(registers),
        rs1 \in Range(registers), imm \in randint_sample(0, 4095) }

build_random_u_instruction(registers) ==
    { UInstruction(name, rd, imm) :
        name \in Range(U_INSTRUCTIONS), rd \in Range(registers),
        imm \in randint_sample_32 }

\* the seven builders build_random_instruction chooses from, in the order of
\* the weights
RANDOM_BUILDERS ==
    <<"build_random_r_instruction", "build_random_i_instruction",
      "build_random_u_instruction", "build_random_j_instruction",
      "build_random_b_instruction", "build_random_s_instruction",
      "build_random_l_instruction">>

RECURSIVE SumSeq(_)
SumSeq(seq) == IF seq = << >> THEN 0 ELSE Head(seq) + SumSeq(Tail(seq))

\* the draw, were the weights not looked at
choices_unweighted(population, weights) ==
    Range(population)

\* random.choices(population, weights)[0], for a positive total weight
choices(population, weights) ==
    { population[k] : k \in {j \in DOMAIN population : weights[j] > 0} }

\* getattr(InstructionBuilder, method_name)(registers=..., max_offset=...,
\* data_reg=..., data_size=...)
random_builder(method_name, registers, max_offset, data_reg, data_size) ==
    CASE method_name = "build_random_r_instruction" ->
            build_random_r_instruction(registers)
      [] method_name = "build_random_i_instruction" ->
            build_random_i_instruction(registers)
      [] method_name = "build_random_u_instruction" ->
            build_random_u_instruction(registers)
      [] method_name = "build_random_j_instruction" ->
            build_random_j_instruction(registers, max_offset)
      [] method_name = "build_random_b_instruction" ->
            build_random_b_instruction(registers, max_offset)
      [] method_name = "build_random_s_instruction" ->
            build_random_s_instruction(registers, data_reg, data_size)
      [] method_name = "build_random_l_instruction" ->
            build_random_l_instruction(registers, data_reg, data_size)

\* build_random_instruction: the builder chosen and what it returns;
\* random.choices raises ValueError for a total weight of 0
build_random_instruction(registers, max_offset, data_reg, data_size, weights) ==
    IF SumSeq(weights) = 0
    THEN { [method_name |-> "None", ret |-> Raised("ValueError")] }
    ELSE UNION { { [method_name |-> method_name, ret |-> Returned(instr)] :
                     instr \in random_builder(method_name, registers,
                                              max_offset, data_reg,
                                              data_size) } :
                 method_name \in choices(RANDOM_BUILDERS, weights) }

\* the registers of a generator, were the list kept as supplied
generator_registers_as_supplied(cls, registers, data_reg, rimi_ssp_reg) ==
    registers

\* Generator.__init__ and RIMIShadowStackTrampolineGenerator.__init__: the
\* registers handed to the builders
generator_registers(cls, registers, data_reg, rimi_ssp_reg) ==
    LET usable == SelectSeq(registers, LAMBDA reg : reg # data_reg)
    IN  IF cls \in RimiClasses
        THEN SelectSeq(usable, LAMBDA reg : reg # rimi_ssp_reg)
        ELSE usable

-----------------------------------------------------------------------------
(* gigue/helpers.py: the random laws, as the sets of their possible draws.  *)
(* A fraction of [0, 1] is its numerator over SampleDen.                    *)

\* generate_trunc_norm(mean, std_dev, 0, 1): the mean itself when the
\* deviation is 0, any point of [0, 1] otherwise
generate_trunc_norm(mean, std_dev) ==
    IF std_dev = 0 THEN {mean} ELSE 0 .. SampleDen

\* generate_poisson(lambda): 0 when lambda is 0, a natural otherwise
generate_poisson(mean) ==
    IF mean = 0 THEN {0} ELSE PoissonDraws

\* math.ceil(a / b) for b > 0
CeilDiv(a, b) == -((-a) \div b)

-----------------------------------------------------------------------------
(* gigue/method.py and gigue/pic.py: the elements of the JIT code.          *)
(* A method is referred to (in call_depth_dict, in callees) by its address. *)

Method(address, body_size, call_number, call_depth, size_of_call) ==
    [address |-> address, body_size |-> body_size,
     call_number |-> call_number, call_depth |-> call_depth,
     call_size |-> size_of_call, prologue_size |-> 0, epilogue_size |-> 0,
     callees |-> << >>]

\* Method.__init__ raises CallNumberException for more calls than the body
\* can hold
MethodRejected(body_size, call_number, size_of_call) ==
    call_number * size_of_call > body_size

\* Method.fill_with_instructions: prologue, body_size instructions, epilogue
method_fill_with_instructions(m) ==
    [m EXCEPT !.prologue_size = MethodPrologueSize(m.call_number > 0),
              !.epilogue_size = MethodEpilogueSize(m.call_number > 0)]

method_total_size(m) == m.body_size + m.prologue_size + m.epilogue_size

RECURSIVE SumTotalSizes(_)
SumTotalSizes(methods) ==
    IF methods = << >> THEN 0
    ELSE method_total_size(Head(methods)) + SumTotalSizes(Tail(methods))

MethodElement(m) ==
    [kind |-> "Method", address |-> m.address, case_number |-> 0,
     methods |-> << m >>]

\* the methods of a PIC, one per case, contiguous from an address, filled
RECURSIVE PicMethods(_, _, _)
PicMethods(address, draws, size_of_call) ==
    IF draws = << >> THEN << >>
    ELSE LET d == Head(draws)
             m == method_fill_with_instructions(
                      Method(address, d.body_size, d.call_number,
                             d.call_depth, size_of_call))
         IN  << m >> \o PicMethods(address + method_total_size(m) * 4,
                                   Tail(draws), size_of_call)

\* the switch of a PIC: three instructions per case
PicSwitchSize(case_number) == 3 * case_number

PIC(address, draws, size_of_call) ==
    [kind |-> "PIC", address |-> address, case_number |-> Len(draws),
     methods |-> PicMethods(address + PicSwitchSize(Len(draws)) * 4, draws,
                            size_of_call)]

element_total_size(elt) ==
    IF elt.kind = "PIC"
    THEN PicSwitchSize(elt.case_number) + SumTotalSizes(elt.methods)
    ELSE method_total_size(elt.methods[1])

method_nb(elt) == IF elt.kind = "PIC" THEN elt.case_number ELSE 1

\* total_size raises EmptySectionException for an element sized to zero
\* instructions by the variation draw
ElementIsEmpty(elt) == \E i \in DOMAIN elt.methods : elt.methods[i].body_size = 0

\* all the methods of a list of elements, in order
RECURSIVE AllMethods(_)
AllMethods(elts) ==
    IF elts = << >> THEN << >>
    ELSE Head(elts).methods \o AllMethods(Tail(elts))

MethodAt(elts, address) ==
    CHOOSE m \in Range(AllMethods(elts)) : m.address = address

-----------------------------------------------------------------------------
(* Generator.__init__ and TrampolineGenerator.__init__ *)

DEFAULT_TRAMPOLINES == <<"call_jit_elt", "ret_from_jit_elt">>

TrampolineClasses == {"TrampolineGenerator"}

\* the counters, lists and binaries __init__ sets to 0 or empty
EmptyFields ==
    /\ method_count = 0
    /\ pic_count = 0
    /\ jit_elements = << >>
    /\ call_depth_dict = << >>
    /\ trampolines = << >>
    /\ trampoline_instructions = << >>
    /\ current_address = 0
    /\ current_method_count = 0
    /\ patch_index = 0
    /\ interpreter_instructions = << >>
    /\ interpreter_prologue_size = 0
    /\ interpreter_epilogue_size = 0
    /\ jit_machine_code = << >>
    /\ interpreter_machine_code = << >>
    /\ jit_bytes = << >>
    /\ interpreter_bytes = << >>
    /\ jit_bin = << >>
    /\ interpreter_bin = << >>
    /\ fills_bin = << >>
    /\ full_bin = << >>
    /\ data_bin = << >>
    /\ ss_bin = << >>
    /\ files = << >>

NoGenerator ==
    /\ config = << >>
    /\ jit_start_address = 0
    /\ interpreter_start_address = 0
    /\ jit_method_size = 0
    /\ call_size = 0
    /\ EmptyFields
    /\ pc = "none"
    /\ exc = "None"

\* the state after Generator(cfg) or TrampolineGenerator(cfg)
\* __init__, were TrampolineGenerator to keep the call_size of Generator
GeneratorInitBaseCallSize(cfg) ==
    /\ config = cfg
    /\ jit_start_address = align(cfg.jit_start_address, 4)
    /\ interpreter_start_address = align(cfg.interpreter_start_address, 4)
    /\ jit_method_size = cfg.jit_size \div cfg.jit_nb_methods
    /\ call_size = 3
    /\ EmptyFields
    /\ pc = "fill_jit_code"
    /\ exc = "None"

GeneratorInit(cfg) ==
    /\ config = cfg
    /\ jit_start_address = align(cfg.jit_start_address, 4)
    /\ interpreter_start_address = align(cfg.interpreter_start_address, 4)
    /\ jit_method_size = cfg.jit_size \div cfg.jit_nb_methods
    /\ call_size = IF cfg.cls \in TrampolineClasses THEN 6 ELSE 3
    /\ EmptyFields
    /\ pc = "fill_jit_code"
    /\ exc = "None"

\* Generator(cfg) raises WrongAddressException
GeneratorRejected(cfg) ==
    /\ config = cfg
    /\ jit_start_address = 0
    /\ interpreter_start_address = 0
    /\ jit_method_size = 0
    /\ call_size = 0
    /\ EmptyFields
    /\ pc = "raised"
    /\ exc = "WrongAddressException"

-----------------------------------------------------------------------------
(* Generator.add_method, add_leaf_method, add_pic: what they draw *)

\* body_size = ceil(jit_method_size * (1 + variation_sign * size_variation))
BodySizes ==
    { CeilDiv(jit_method_size * (SampleDen + sign * v), SampleDen) :
        v \in generate_trunc_norm(config.method_variation_mean,
                                  config.method_variation_stdev),
        sign \in {1, -1} }

\* call_nb, were max_call_nb rounded up
CallNumbersRoundedUp(body_size) ==
    { (o * CeilDiv(body_size, call_size)) \div SampleDen :
        o \in generate_trunc_norm(config.call_occupation_mean,
                                  config.call_occupation_stdev) }

\* call_nb = trunc(call_occupation * (body_size // call_size))
CallNumbers(body_size) ==
    { (o * (body_size \div call_size)) \div SampleDen :
        o \in generate_trunc_norm(config.call_occupation_mean,
                                  config.call_occupation_stdev) }

\* call_depth = generate_poisson(call_depth_mean) if call_nb > 0 else 0
CallDepths(call_nb) ==
    IF call_nb > 0 THEN generate_poisson(config.call_depth_mean) ELSE {0}

MethodDraws ==
    UNION { UNION { { [body_size |-> b, call_number |-> c, call_depth |-> d] :
                        d \in CallDepths(c) } :
                    c \in CallNumbers(b) } :
            b \in BodySizes }

CasesNumbersUncapped(remaining_methods) ==
    { p + 1 : p \in generate_poisson(config.pics_mean_case_nb) }

\* cases_nb = min(generate_poisson(pics_mean_case_nb) + 1, remaining_methods)
CasesNumbers(remaining_methods) ==
    { Min(p + 1, remaining_methods) :
        p \in generate_poisson(config.pics_mean_case_nb) }

\* call_depth_dict[call_depth].append(method), on a defaultdict(list)
DictAppend(dict, key, value) ==
    IF key \in DOMAIN dict
    THEN [dict EXCEPT ![key] = Append(@, value)]
    ELSE dict @@ (key :> << value >>)

RECURSIVE DictAppendAll(_, _)
DictAppendAll(dict, methods) ==
    IF methods = << >> THEN dict
    ELSE DictAppendAll(DictAppend(dict, Head(methods).call_depth,
                                  Head(methods).address),
                       Tail(methods))

\* the trampolines of DEFAULT_TRAMPOLINES, built one after the other from an
\* address
trampoline_build(name) ==
    IF name = "call_jit_elt" THEN build_call_jit_elt_trampoline
    ELSE build_ret_from_jit_elt_trampoline

\* the trampolines, were the address not moved past each of them
RECURSIVE AddTrampolinesAtStart(_, _)
AddTrampolinesAtStart(address, names) ==
    IF names = << >> THEN << >>
    ELSE LET t == [name |-> Head(names), address |-> address,
                   instructions |-> trampoline_build(Head(names))]
         IN  << t >> \o AddTrampolinesAtStart(address, Tail(names))

RECURSIVE AddTrampolines(_, _)
AddTrampolines(address, names) ==
    IF names = << >> THEN << >>
    ELSE LET t == [name |-> Head(names), address |-> address,
                   instructions |-> trampoline_build(Head(names))]
         IN  << t >> \o AddTrampolines(address + Len(t.instructions) * 4,
                                       Tail(names))

RECURSIVE TrampolineInstructions(_)
TrampolineInstructions(tramps) ==
    IF tramps = << >> THEN << >>
    ELSE Head(tramps).instructions \o TrampolineInstructions(Tail(tramps))

-----------------------------------------------------------------------------
(* Phase 1: fill_jit_code *)

\* fill_jit_code up to its loop, were the first leaf method not put in
\* call_depth_dict
FillJitCodeLeafUnregistered ==
    /\ pc = "fill_jit_code"
    /\ LET tramps == IF config.cls \in TrampolineClasses
                     THEN AddTrampolines(jit_start_address, DEFAULT_TRAMPOLINES)
                     ELSE << >>
           address == jit_start_address + Len(TrampolineInstructions(tramps)) * 4
       IN  \E body_size \in BodySizes :
            LET leaf == method_fill_with_instructions(
                            Method(address, body_size, 0, 0, call_size))
            IN  /\ trampolines' = tramps
                /\ trampoline_instructions' = TrampolineInstructions(tramps)
                /\ jit_elements' = Append(jit_elements, MethodElement(leaf))
                /\ call_depth_dict' = call_depth_dict
                /\ method_count' = method_count + 1
                /\ IF body_size = 0
                   THEN /\ pc' = "raised"
                        /\ exc' = "EmptySectionException"
                        /\ current_address' = address
                        /\ current_method_count' = 0
                   ELSE /\ pc' = "fill_loop"
                        /\ exc' = exc
                        /\ current_address' = address + method_total_size(leaf) * 4
                        /\ current_method_count' = 1
    /\ UNCHANGED <<bvars, initvars, pic_count, patch_index, interpvars, emitvars>>

\* fill_jit_code up to its loop: the trampolines (TrampolineGenerator), then
\* a first leaf method
FillJitCodeLeaf ==
    /\ pc = "fill_jit_code"
    /\ LET tramps == IF config.cls \in TrampolineClasses
                     THEN AddTrampolines(jit_start_address, DEFAULT_TRAMPOLINES)
                     ELSE << >>
           address == jit_start_address + Len(TrampolineInstructions(tramps)) * 4
       IN  \E body_size \in BodySizes :
            LET leaf == method_fill_with_instructions(
                            Method(address, body_size, 0, 0, call_size))
            IN  /\ trampolines' = tramps
                /\ trampoline_instructions' = TrampolineInstructions(tramps)
                /\ jit_elements' = Append(jit_elements, MethodElement(leaf))
                /\ call_depth_dict' = DictAppend(call_depth_dict, 0, leaf.address)
                /\ method_count' = method_count + 1
                /\ IF body_size = 0
                   THEN /\ pc' = "raised"
                        /\ exc' = "EmptySectionException"
                        /\ current_address' = address
                        /\ current_method_count' = 0
                   ELSE /\ pc' = "fill_loop"
                        /\ exc' = exc
                        /\ current_address' = address + method_total_size(leaf) * 4
                        /\ current_method_count' = 1
    /\ UNCHANGED <<bvars, initvars, pic_count, patch_index, interpvars, emitvars>>

\* one turn of the loop of fill_jit_code that draws "method": add_method
FillJitCodeMethod ==
    /\ pc = "fill_loop"
    /\ current_method_count < config.jit_nb_methods
    /\ config.pics_ratio < SampleDen
    /\ \E d \in MethodDraws :
        IF MethodRejected(d.body_size, d.call_number, call_size)
        THEN /\ pc' = "raised"
             /\ exc' = "CallNumberException"
             /\ UNCHANGED fillvars
        ELSE LET m == method_fill_with_instructions(
                          Method(current_address, d.body_size, d.call_number,
                                 d.call_depth, call_size))
             IN  /\ jit_elements' = Append(jit_elements, MethodElement(m))
                 /\ call_depth_dict' =
                        DictAppend(call_depth_dict, d.call_depth, m.address)
                 /\ method_count' = method_count + 1
                 /\ IF d.body_size = 0
                    THEN /\ pc' = "raised"
                         /\ exc' = "EmptySectionException"
                         /\ UNCHANGED <<current_address, current_method_count>>
                    ELSE /\ pc' = pc
                         /\ exc' = exc
                         /\ current_address' =
                                current_address + method_total_size(m) * 4
                         /\ current_method_count' = current_method_count + 1
                 /\ UNCHANGED <<pic_count, trampolines, trampoline_instructions>>
    /\ UNCHANGED <<bvars, initvars, patch_index, interpvars, emitvars>>

\* one turn of the loop of fill_jit_code that draws "pic": add_pic
FillJitCodePic ==
    /\ pc = "fill_loop"
    /\ current_method_count < config.jit_nb_methods
    /\ config.pics_ratio > 0
    /\ \E cases_nb \in CasesNumbers(config.jit_nb_methods - current_method_count) :
       \E draws \in [1 .. cases_nb -> MethodDraws] :
        IF \E i \in 1 .. cases_nb :
              MethodRejected(draws[i].body_size, draws[i].call_number, call_size)
        THEN /\ pc' = "raised"
             /\ exc' = "CallNumberException"
             /\ UNCHANGED fillvars
        ELSE LET pic == PIC(current_address, draws, call_size)
             IN  /\ jit_elements' = Append(jit_elements, pic)
                 /\ call_depth_dict' = DictAppendAll(call_depth_dict, pic.methods)
                 /\ pic_count' = pic_count + 1
                 /\ method_count' = method_count + method_nb(pic)
                 /\ IF ElementIsEmpty(pic)
                    THEN /\ pc' = "raised"
                         /\ exc' = "EmptySectionException"
                         /\ UNCHANGED <<current_address, current_method_count>>
                    ELSE /\ pc' = pc
                         /\ exc' = exc
                         /\ current_address' =
                                current_address + element_total_size(pic) * 4
                         /\ current_method_count' =
                                current_method_count + method_nb(pic)
                 /\ UNCHANGED <<trampolines, trampoline_instructions>>
    /\ UNCHANGED <<bvars, initvars, patch_index, interpvars, emitvars>>

\* the loop of fill_jit_code ends
FillJitCodeReturn ==
    /\ pc = "fill_loop"
    /\ ~(current_method_count < config.jit_nb_methods)
    /\ pc' = "patch_jit_calls"
    /\ patch_index' = 1
    /\ UNCHANGED <<bvars, initvars, fillvars, interpvars, emitvars, exc>>

-----------------------------------------------------------------------------
(* Phase 2: patch_jit_calls *)

RECURSIVE FlattenDepths(_, _)
FlattenDepths(dict, keys) ==
    IF keys = {} THEN << >>
    ELSE LET k == CHOOSE k \in keys : \A j \in keys : k <= j
         IN  dict[k] \o FlattenDepths(dict, keys \ {k})

CalleeDepthsUpTo(call_depth) ==
    {i \in DOMAIN call_depth_dict : i <= call_depth}

\* the keys i of call_depth_dict with i < call_depth
CalleeDepths(call_depth) ==
    {i \in DOMAIN call_depth_dict : i < call_depth}

possible_callees(call_depth) ==
    FlattenDepths(call_depth_dict, CalleeDepths(call_depth))

\* extract_callees: random.choices(possible_callees, k=nb), every list of nb
\* members of possible_callees
extract_callees(call_depth, nb) ==
    [1 .. nb -> Range(possible_callees(call_depth))]

\* the callees of the callees ..., from a set of methods
RECURSIVE CalleeClosure(_, _)
CalleeClosure(elts, addresses) ==
    LET more == addresses \cup
                UNION { Range(MethodAt(elts, a).callees) : a \in addresses }
    IN  IF more = addresses THEN addresses ELSE CalleeClosure(elts, more)

\* the methods reached from a method through one or more calls
TransitiveCallees(elts, address) ==
    CalleeClosure(elts, Range(MethodAt(elts, address).callees))

\* Method.patch_base_calls / patch_trampoline_calls: what they raise
PatchException(elts, m, callees) ==
    IF m.address \in Range(callees) THEN "RecursiveCallException"
    ELSE IF \E c \in Range(callees) :
                m.address \in CalleeClosure(elts, {c})
         THEN "MutualCallException"
    ELSE IF Len(callees) # m.call_number THEN "CallNumberException"
    ELSE "None"

\* ... and what they record
SetCallees(elts, address, callees) ==
    [e \in DOMAIN elts |->
        [elts[e] EXCEPT !.methods =
            [i \in DOMAIN elts[e].methods |->
                IF elts[e].methods[i].address = address
                THEN [elts[e].methods[i] EXCEPT !.callees = callees]
                ELSE elts[e].methods[i]]]]

\* the methods patch_jit_calls has still to patch: those from patch_index on,
\* in the order of jit_elements, whose call_depth is not 0
ToPatch ==
    {k \in patch_index .. Len(AllMethods(jit_elements)) :
        AllMethods(jit_elements)[k].call_depth # 0}

\* patch_method_calls, were it to log the exception and go on
PatchMethodCallsSwallowing ==
    /\ pc = "patch_jit_calls"
    /\ ToPatch # {}
    /\ LET k == CHOOSE k \in ToPatch : \A j \in ToPatch : k <= j
           m == AllMethods(jit_elements)[k]
       IN  IF possible_callees(m.call_depth) = << >> /\ m.call_number > 0
           THEN /\ pc' = "raised"
                /\ exc' = "IndexError"
                /\ UNCHANGED <<jit_elements, patch_index>>
           ELSE \E callees \in extract_callees(m.call_depth, m.call_number) :
                LET raised == PatchException(jit_elements, m, callees)
                IN  IF raised # "None"
                    THEN /\ patch_index' = k + 1
                         /\ UNCHANGED <<jit_elements, pc, exc>>
                    ELSE /\ jit_elements' =
                                SetCallees(jit_elements, m.address, callees)
                         /\ patch_index' = k + 1
                         /\ UNCHANGED <<pc, exc>>
    /\ UNCHANGED <<bvars, initvars, method_count, pic_count, call_depth_dict,
                   trampolines, trampoline_instructions, current_address,
                   current_method_count, interpvars, emitvars>>

\* patch_jit_calls reaches the next method to patch: patch_method_calls
PatchMethodCalls ==
    /\ pc = "patch_jit_calls"
    /\ ToPatch # {}
    /\ LET k == CHOOSE k \in ToPatch : \A j \in ToPatch : k <= j
           m == AllMethods(jit_elements)[k]
       IN  IF possible_callees(m.call_depth) = << >> /\ m.call_number > 0
           THEN /\ pc' = "raised"
                /\ exc' = "IndexError"
                /\ UNCHANGED <<jit_elements, patch_index>>
           ELSE \E callees \in extract_callees(m.call_depth, m.call_number) :
                LET raised == PatchException(jit_elements, m, callees)
                IN  IF raised # "None"
                    THEN /\ pc' = "raised"
                         /\ exc' = raised
                         /\ UNCHANGED <<jit_elements, patch_index>>
                    ELSE /\ jit_elements' =
                                SetCallees(jit_elements, m.address, callees)
                         /\ patch_index' = k + 1
                         /\ UNCHANGED <<pc, exc>>
    /\ UNCHANGED <<bvars, initvars, method_count, pic_count, call_depth_dict,
                   trampolines, trampoline_instructions, current_address,
                   current_method_count, interpvars, emitvars>>

\* patch_jit_calls has no method left to patch
PatchJitCallsReturn ==
    /\ pc = "patch_jit_calls"
    /\ ToPatch = {}
    /\ pc' = "fill_interpretation_loop"
    /\ UNCHANGED <<bvars, initvars, fillvars, patch_index, interpvars,
                   emitvars, exc>>

-----------------------------------------------------------------------------
(* Phase 3: fill_interpretation_loop *)

\* a call sequence follows another unless it raised
Then(first, second) ==
    IF first.exc # "None" THEN first
    ELSE IF second.exc # "None" THEN second
    ELSE Returned(first.value \o second.value)

\* InstructionBuilder.build_element_base_call: the visitor of build_element_call
build_element_base_call(elt, offset, hit_case) ==
    IF elt.kind = "PIC"
    THEN build_pic_call(offset, hit_case, HIT_CASE_REG)
    ELSE build_method_base_call(offset)

\* InstructionBuilder.build_method_trampoline_call: the address of the callee
\* in CALL_TMP_REG, then a call of the trampoline
build_method_trampoline_call(offset, call_trampoline_offset) ==
    Then(build_pc_relative_reg_save(offset, CALL_TMP_REG),
         build_method_base_call(call_trampoline_offset))

build_element_trampoline_call(elt, offset, call_trampoline_offset, hit_case) ==
    IF elt.kind = "PIC"
    THEN Then(Returned(<< IInstruction("addi", HIT_CASE_REG, 0, hit_case) >>),
              build_method_trampoline_call(offset, call_trampoline_offset))
    ELSE build_method_trampoline_call(offset, call_trampoline_offset)

\* TrampolineGenerator.find_trampoline_offset
find_trampoline_offset(name, address) ==
    LET found == {i \in DOMAIN trampolines : trampolines[i].name = name}
    IN  trampolines[CHOOSE i \in found : \A j \in found : i <= j].address
            - address

build_element_call_from_start(elt, address, hit_case) ==
    IF config.cls \in TrampolineClasses
    THEN build_element_trampoline_call(
             elt, elt.address - interpreter_start_address,
             find_trampoline_offset("call_jit_elt", address), hit_case)
    ELSE build_element_base_call(
             elt, elt.address - interpreter_start_address, hit_case)

\* Generator.build_element_call and TrampolineGenerator.build_element_call
build_element_call(elt, address, hit_case) ==
    IF config.cls \in TrampolineClasses
    THEN build_element_trampoline_call(
             elt, elt.address - address,
             find_trampoline_offset("call_jit_elt", address), hit_case)
    ELSE build_element_base_call(elt, elt.address - address, hit_case)

\* the loop of fill_interpretation_loop over the shuffled elements: the
\* instructions added, up to the call that raises if one does
RECURSIVE InterpreterCalls(_, _, _)
InterpreterCalls(elts, hit_cases, address) ==
    IF elts = << >> THEN Returned(<< >>)
    ELSE LET built == build_element_call(Head(elts), address, Head(hit_cases))
         IN  IF built.exc # "None"
             THEN built
             ELSE LET rest == InterpreterCalls(
                                  Tail(elts), Tail(hit_cases),
                                  address + Len(built.value) * 4)
                  IN  [exc |-> rest.exc, value |-> built.value \o rest.value]

\* random.shuffle: the orders of n elements
Shuffles(n) == Permutations(1 .. n)

\* the case each PIC call hits (1 for a method, which has none)
RECURSIVE HitCaseChoices(_)
HitCaseChoices(elts) ==
    IF elts = << >> THEN { << >> }
    ELSE { << h >> \o rest :
            h \in 1 .. Max(1, Head(elts).case_number),
            rest \in HitCaseChoices(Tail(elts)) }

InterpreterOverwritesJitInWords(instructions) ==
    interpreter_start_address + Len(instructions) > jit_start_address

\* the test fill_interpretation_loop ends with: the interpretation loop
\* ends beyond jit_start_address
InterpreterOverwritesJit(instructions) ==
    interpreter_start_address + Len(instructions) * 4 > jit_start_address

FillInterpretationLoop ==
    /\ pc = "fill_interpretation_loop"
    /\ \E order \in Shuffles(Len(jit_elements)) :
       \E hit_cases \in HitCaseChoices(jit_elements) :
        LET prologue_instructions == build_prologue(10, 0, TRUE)
            shuffled_elements ==
                [i \in DOMAIN jit_elements |-> jit_elements[order[i]]]
            shuffled_hits == [i \in DOMAIN jit_elements |-> hit_cases[order[i]]]
            calls == InterpreterCalls(
                         shuffled_elements, shuffled_hits,
                         interpreter_start_address
                            + Len(prologue_instructions) * 4)
            epilogue_instructions == build_epilogue(10, 0, TRUE)
        IN  IF calls.exc # "None"
            THEN /\ interpreter_instructions' =
                        interpreter_instructions \o prologue_instructions
                            \o calls.value
                 /\ pc' = "raised"
                 /\ exc' = calls.exc
                 /\ UNCHANGED <<interpreter_prologue_size,
                                interpreter_epilogue_size>>
            ELSE /\ interpreter_instructions' =
                        interpreter_instructions \o prologue_instructions
                            \o calls.value \o epilogue_instructions
                 /\ interpreter_prologue_size' = Len(prologue_instructions)
                 /\ interpreter_epilogue_size' = Len(epilogue_instructions)
                 /\ IF InterpreterOverwritesJit(interpreter_instructions')
                    THEN pc' = "raised" /\ exc' = "WrongAddressException"
                    ELSE pc' = "generate_jit_machine_code" /\ exc' = exc
    /\ UNCHANGED <<bvars, initvars, fillvars, patch_index, emitvars>>

-----------------------------------------------------------------------------
(* Machine code, bytes and binaries.  A machine word is written as the      *)
(* instruction it encodes, a byte as <<word, k>>, the k-th of the 4 bytes   *)
(* of the word; the words of a JIT element, whose instructions are random,  *)
(* are written as their addresses.                                          *)

\* instr.generate(): the 32-bit word
generate(instr) == instr

\* instr.generate_bytes(): the 4 bytes of the word
generate_bytes(instr) == [k \in 1 .. 4 |-> <<generate(instr), k>>]

\* elt.generate(): the words of the element
element_generate(elt) ==
    [k \in 1 .. element_total_size(elt) |->
        Instr(".word", 0, 0, 0, elt.address + 4 * (k - 1))]

\* b"".join(list)
RECURSIVE Join(_)
Join(list) == IF list = << >> THEN << >> ELSE Head(list) \o Join(Tail(list))

\* elt.generate_bytes(): the bytes of the words of the element
element_generate_bytes(elt) ==
    Join([k \in 1 .. element_total_size(elt) |->
             generate_bytes(element_generate(elt)[k])])

\* Generator.generate_jit_machine_code: jit_machine_code += [...]
base_generate_jit_machine_code(machine_code) ==
    machine_code \o [i \in DOMAIN jit_elements |->
                        element_generate(jit_elements[i])]

\* Generator.generate_jit_bytes: jit_bytes += [...]
base_generate_jit_bytes(bytes) ==
    bytes \o [i \in DOMAIN jit_elements |->
                 element_generate_bytes(jit_elements[i])]

\* TrampolineGenerator.generate_jit_machine_code: the list is set to the
\* words of the trampolines, the inherited method extends this list in
\* place and returns it, and  list += list  appends the list to itself
trampoline_generate_jit_machine_code ==
    LET extended == base_generate_jit_machine_code(
                        [i \in DOMAIN trampoline_instructions |->
                            generate(trampoline_instructions[i])])
    IN  extended \o extended

\* TrampolineGenerator.generate_jit_bytes: the same with the bytes
trampoline_generate_jit_bytes ==
    LET extended == base_generate_jit_bytes(
                        [i \in DOMAIN trampoline_instructions |->
                            generate_bytes(trampoline_instructions[i])])
    IN  extended \o extended

GenerateJitMachineCode ==
    /\ pc = "generate_jit_machine_code"
    /\ jit_machine_code' =
        IF config.cls \in TrampolineClasses
        THEN trampoline_generate_jit_machine_code
        ELSE base_generate_jit_machine_code(jit_machine_code)
    /\ pc' = "generate_interpreter_machine_code"
    /\ UNCHANGED <<bvars, initvars, fillvars, patch_index, interpvars,
                   interpreter_machine_code, jit_bytes, interpreter_bytes,
                   jit_bin, interpreter_bin, fills_bin, full_bin, data_bin,
                   ss_bin, files, exc>>

GenerateInterpreterMachineCode ==
    /\ pc = "generate_interpreter_machine_code"
    /\ interpreter_machine_code' =
        interpreter_machine_code
            \o [i \in DOMAIN interpreter_instructions |->
                    generate(interpreter_instructions[i])]
    /\ pc' = "generate_jit_bytes"
    /\ UNCHANGED <<bvars, initvars, fillvars, patch_index, interpvars,
                   jit_machine_code, jit_bytes, interpreter_bytes,
                   jit_bin, interpreter_bin, fills_bin, full_bin, data_bin,
                   ss_bin, files, exc>>

GenerateJitBytes ==
    /\ pc = "generate_jit_bytes"
    /\ jit_bytes' =
        IF config.cls \in TrampolineClasses
        THEN trampoline_generate_jit_bytes
        ELSE base_generate_jit_bytes(jit_bytes)
    /\ pc' = "generate_interpreter_bytes"
    /\ UNCHANGED <<bvars, initvars, fillvars, patch_index, interpvars,
                   jit_machine_code, interpreter_machine_code,
                   interpreter_bytes, jit_bin, interpreter_bin, fills_bin,
                   full_bin, data_bin, ss_bin, files, exc>>

GenerateInterpreterBytes ==
    /\ pc = "generate_interpreter_bytes"
    /\ interpreter_bytes' =
        [i \in DOMAIN interpreter_instructions |->
            generate_bytes(interpreter_instructions[i])]
    /\ pc' = "generate_output_binary"
    /\ UNCHANGED <<bvars, initvars, fillvars, patch_index, interpvars,
                   jit_machine_code, interpreter_machine_code, jit_bytes,
                   jit_bin, interpreter_bin, fills_bin, full_bin, data_bin,
                   ss_bin, files, exc>>

FillSizeFromStart ==
    (jit_start_address - interpreter_start_address) \div 4

\* generate_fills_binary: the number of nops
FillSize ==
    (jit_start_address
        - (interpreter_start_address + Len(interpreter_machine_code) * 4))
    \div 4

\* generate_output_binary: generate_interpreter_binary, generate_fills_binary,
\* generate_jit_binary, and the three binaries one after the other
GenerateOutputBinary ==
    /\ pc = "generate_output_binary"
    /\ interpreter_bin' = Join(interpreter_bytes)
    /\ fills_bin' = Join([i \in 1 .. FillSize |-> generate_bytes(Nop)])
    /\ jit_bin' = Join(jit_bytes)
    /\ full_bin' = interpreter_bin' \o fills_bin' \o jit_bin'
    /\ pc' = "generate_data_binary"
    /\ UNCHANGED <<bvars, initvars, fillvars, patch_index, interpvars,
                   jit_machine_code, interpreter_machine_code, jit_bytes,
                   interpreter_bytes, data_bin, ss_bin, files, exc>>

\* Dataminer.generate_data(strategy, size): size bytes
generate_data(strategy, size) == [i \in 1 .. size |-> 0]

GenerateDataBinary ==
    /\ pc = "generate_data_binary"
    /\ data_bin' = generate_data(config.data_generation_strategy,
                                 config.data_size)
    /\ pc' = "write_binary"
    /\ UNCHANGED <<bvars, initvars, fillvars, patch_index, interpvars,
                   jit_machine_code, interpreter_machine_code, jit_bytes,
                   interpreter_bytes, jit_bin, interpreter_bin, fills_bin,
                   full_bin, ss_bin, files, exc>>

\* open(file, "wb").write(content)
Written(file, content) ==
    [f \in DOMAIN files \cup {file} |-> IF f = file THEN content ELSE files[f]]

WriteBinaryOnFailure ==
    /\ pc \in {"write_binary", "raised"}
    /\ files' = Written("bin_file", full_bin)
    /\ pc' = "write_data_binary"
    /\ UNCHANGED <<bvars, initvars, fillvars, patch_index, interpvars,
                   jit_machine_code, interpreter_machine_code, jit_bytes,
                   interpreter_bytes, jit_bin, interpreter_bin, fills_bin,
                   full_bin, data_bin, ss_bin, exc>>

\* Generator.write_binary
WriteBinary ==
    /\ pc = "write_binary"
    /\ files' = Written("bin_file", full_bin)
    /\ pc' = "write_data_binary"
    /\ UNCHANGED <<bvars, initvars, fillvars, patch_index, interpvars,
                   jit_machine_code, interpreter_machine_code, jit_bytes,
                   interpreter_bytes, jit_bin, interpreter_bin, fills_bin,
                   full_bin, data_bin, ss_bin, exc>>

WriteDataBinary ==
    /\ pc = "write_data_binary"
    /\ files' = Written("data_bin_file", data_bin)
    /\ pc' = "generate_shadowstack_binary"
    /\ UNCHANGED <<bvars, initvars, fillvars, patch_index, interpvars,
                   jit_machine_code, interpreter_machine_code, jit_bytes,
                   interpreter_bytes, jit_bin, interpreter_bin, fills_bin,
                   full_bin, data_bin, ss_bin, exc>>

\* Generator.generate_shadowstack_binary, were no class to override it
GenerateShadowstackBinaryOfGenerator ==
    /\ pc = "generate_shadowstack_binary"
    /\ ss_bin' = generate_data("zeroes", 8)
    /\ pc' = "write_shadowstack_binary"
    /\ UNCHANGED <<bvars, initvars, fillvars, patch_index, interpvars,
                   jit_machine_code, interpreter_machine_code, jit_bytes,
                   interpreter_bytes, jit_bin, interpreter_bin, fills_bin,
                   full_bin, data_bin, files, exc>>

\* Generator.generate_shadowstack_binary and its override in
\* RIMIShadowStackTrampolineGenerator
GenerateShadowstackBinary ==
    /\ pc = "generate_shadowstack_binary"
    /\ ss_bin' = generate_data("zeroes",
                               IF config.cls \in RimiClasses
                               THEN config.shadow_stack_size ELSE 8)
    /\ pc' = "write_shadowstack_binary"
    /\ UNCHANGED <<bvars, initvars, fillvars, patch_index, interpvars,
                   jit_machine_code, interpreter_machine_code, jit_bytes,
                   interpreter_bytes, jit_bin, interpreter_bin, fills_bin,
                   full_bin, data_bin, files, exc>>

WriteShadowstackBinary ==
    /\ pc = "write_shadowstack_binary"
    /\ files' = Written("ss_bin_file", ss_bin)
    /\ pc' = "done"
    /\ UNCHANGED <<bvars, initvars, fillvars, patch_index, interpvars,
                   jit_machine_code, interpreter_machine_code, jit_bytes,
                   interpreter_bytes, jit_bin, interpreter_bin, fills_bin,
                   full_bin, data_bin, ss_bin, exc>>

-----------------------------------------------------------------------------
(* The generator specification: main(), step by step, of a Generator or a   *)
(* TrampolineGenerator built on one of the configurations.                  *)

\* the generators built, were __init__ not to compare the two addresses
InitGenUnchecked ==
    /\ call = NoCall
    /\ \E cfg \in Configs : GeneratorInit(cfg)

InitGen ==
    /\ call = NoCall
    /\ \E cfg \in Configs :
        IF cfg.interpreter_start_address > cfg.jit_start_address
        THEN GeneratorRejected(cfg)
        ELSE GeneratorInit(cfg)

NextGen ==
    \/ FillJitCodeLeaf
    \/ FillJitCodeMethod
    \/ FillJitCodePic
    \/ FillJitCodeReturn
    \/ PatchMethodCalls
    \/ PatchJitCallsReturn
    \/ FillInterpretationLoop
    \/ GenerateJitMachineCode
    \/ GenerateInterpreterMachineCode
    \/ GenerateJitBytes
    \/ GenerateInterpreterBytes
    \/ GenerateOutputBinary
    \/ GenerateDataBinary
    \/ WriteBinary
    \/ WriteDataBinary
    \/ GenerateShadowstackBinary
    \/ WriteShadowstackBinary

SpecGen == InitGen /\ [][NextGen]_vars

\* fill_jit_code() alone, called on a generator just built; once called it
\* runs on until it returns or raises
NextFill ==
    \/ FillJitCodeLeaf
    \/ FillJitCodeMethod
    \/ FillJitCodePic
    \/ FillJitCodeReturn

FairSpecFill == InitGen /\ [][NextFill]_vars /\ WF_vars(NextFill)

-----------------------------------------------------------------------------
(* Patching alone: a generator whose fill_jit_code returned a leaf method   *)
(* and two methods with calls; the methods are patched directly, with any   *)
(* list of callees, as well as by patch_jit_calls.                          *)

\* the call depths of the three methods, in the order they were added
PatchDepths == { <<0, 2, 1>>, <<0, 1, 2>>, <<0, 1, 1>> }

\* the lists of callees a direct call passes
CalleeLists(addresses) ==
    UNION { [1 .. n -> addresses] : n \in 0 .. 2 }

\* the methods of the generator, contiguous from an address
RECURSIVE FilledMethods(_, _, _, _)
FilledMethods(address, body_size, depths, size_of_call) ==
    IF depths = << >> THEN << >>
    ELSE LET nb == IF Head(depths) = 0 THEN 0 ELSE body_size \div size_of_call
             m == method_fill_with_instructions(
                      Method(address, body_size, nb, Head(depths),
                             size_of_call))
         IN  << m >> \o FilledMethods(address + method_total_size(m) * 4,
                                      body_size, Tail(depths), size_of_call)

InitPatch ==
    /\ call = NoCall
    /\ \E cfg \in Configs, depths \in PatchDepths :
        /\ cfg.cls = "Generator"
        /\ cfg.interpreter_start_address < cfg.jit_start_address
        /\ cfg.jit_nb_methods = Len(depths)
        /\ cfg.jit_size \div cfg.jit_nb_methods >= 6
        /\ cfg.call_depth_mean > 0
        /\ config = cfg
        /\ jit_start_address = align(cfg.jit_start_address, 4)
        /\ interpreter_start_address = align(cfg.interpreter_start_address, 4)
        /\ jit_method_size = cfg.jit_size \div cfg.jit_nb_methods
        /\ call_size = 3
        /\ LET methods == FilledMethods(jit_start_address, jit_method_size,
                                        depths, call_size)
           IN  /\ jit_elements = [k \in DOMAIN methods |->
                                     MethodElement(methods[k])]
               /\ call_depth_dict = DictAppendAll(<< >>, methods)
               /\ method_count = Len(methods)
               /\ current_method_count = Len(methods)
               /\ current_address =
                      jit_start_address + SumTotalSizes(methods) * 4
    /\ pic_count = 0
    /\ trampolines = << >>
    /\ trampoline_instructions = << >>
    /\ patch_index = 1
    /\ interpreter_instructions = << >>
    /\ interpreter_prologue_size = 0
    /\ interpreter_epilogue_size = 0
    /\ jit_machine_code = << >>
    /\ interpreter_machine_code = << >>
    /\ jit_bytes = << >>
    /\ interpreter_bytes = << >>
    /\ jit_bin = << >>
    /\ interpreter_bin = << >>
    /\ fills_bin = << >>
    /\ full_bin = << >>
    /\ data_bin = << >>
    /\ ss_bin = << >>
    /\ files = << >>
    /\ pc = "patch_jit_calls"
    /\ exc = "None"

\* method.patch_base_calls(callees), called directly on a method of the
\* generator with a list of its methods
PatchBaseCalls ==
    /\ pc = "patch_jit_calls"
    /\ \E k \in DOMAIN AllMethods(jit_elements) :
       \E callees \in CalleeLists({ AllMethods(jit_elements)[j].address :
                                       j \in DOMAIN AllMethods(jit_elements) }) :
        LET m == AllMethods(jit_elements)[k]
            raised == PatchException(jit_elements, m, callees)
        IN  /\ call' = [op |-> "patch_base_calls",
                        args |-> [method |-> m.address, callees |-> callees],
                        ret |-> IF raised # "None" THEN Raised(raised)
                                ELSE Returned(<< >>)]
            /\ jit_elements' =
                   IF raised # "None" THEN jit_elements
                   ELSE SetCallees(jit_elements, m.address, callees)
    /\ UNCHANGED <<initvars, method_count, pic_count, call_depth_dict,
                   trampolines, trampoline_instructions, current_address,
                   current_method_count, patch_index, interpvars, emitvars,
                   pc, exc>>

NextPatch ==
    \/ PatchBaseCalls
    \/ PatchMethodCalls
    \/ PatchJitCallsReturn

SpecPatch == InitPatch /\ [][NextPatch]_vars

-----------------------------------------------------------------------------
(* The end of main() alone, from generate_data_binary() on, for a generator *)
(* of any class: the base classes and the RIMI ones, which are built with a *)
(* shadow_stack_size.  The configuration of a run holds a shadow stack size *)
(* whatever the class; Generator and TrampolineGenerator take no such       *)
(* argument.                                                                *)

InitShadowStack ==
    /\ call = NoCall
    /\ \E cfg \in Configs, cls \in GeneratorClasses,
          shadow_stack_size \in ShadowStackSizes :
        /\ cfg.cls = "Generator"
        /\ cfg.interpreter_start_address <= cfg.jit_start_address
        /\ config = [cfg EXCEPT !.cls = cls]
                        @@ [shadow_stack_size |-> shadow_stack_size]
        /\ jit_start_address = align(cfg.jit_start_address, 4)
        /\ interpreter_start_address = align(cfg.interpreter_start_address, 4)
        /\ jit_method_size = cfg.jit_size \div cfg.jit_nb_methods
        /\ call_size = IF cls = "Generator" THEN 3 ELSE 6
    /\ EmptyFields
    /\ pc = "generate_data_binary"
    /\ exc = "None"

NextShadowStack ==
    \/ GenerateDataBinary
    \/ WriteBinary
    \/ WriteDataBinary
    \/ GenerateShadowstackBinary
    \/ WriteShadowstackBinary

SpecShadowStack == InitShadowStack /\ [][NextShadowStack]_vars

-----------------------------------------------------------------------------
(* fill_jit_code() of a generator whose method sizes and call occupations   *)
(* vary: the standard deviations are not 0, so that every size and every    *)
(* occupation of the samples is drawn.                                      *)

InitFillVaried ==
    /\ call = NoCall
    /\ \E cfg \in Configs :
        /\ cfg.interpreter_start_address < cfg.jit_start_address
        /\ cfg.jit_nb_methods <= 2
        /\ cfg.jit_size \div cfg.jit_nb_methods > 2
        /\ GeneratorInit([cfg EXCEPT !.method_variation_stdev = 1,
                                     !.call_occupation_stdev = 1])

SpecFillVaried == InitFillVaried /\ [][NextFill]_vars

-----------------------------------------------------------------------------
(* The emission steps called a second time: main() up to                    *)
(* generate_output_binary(), then generate_jit_machine_code(),              *)
(* generate_interpreter_machine_code(), generate_jit_bytes(),               *)
(* generate_interpreter_bytes() and generate_output_binary() once more on   *)
(* the same generator.                                                      *)

GenerateJitMachineCodeAgain ==
    /\ pc = "generate_data_binary"
    /\ jit_machine_code' =
        IF config.cls \in TrampolineClasses
        THEN trampoline_generate_jit_machine_code
        ELSE base_generate_jit_machine_code(jit_machine_code)
    /\ pc' = "generate_interpreter_machine_code_again"
    /\ UNCHANGED <<bvars, initvars, fillvars, patch_index, interpvars,
                   interpreter_machine_code, jit_bytes, interpreter_bytes,
                   jit_bin, interpreter_bin, fills_bin, full_bin, data_bin,
                   ss_bin, files, exc>>

GenerateInterpreterMachineCodeAgain ==
    /\ pc = "generate_interpreter_machine_code_again"
    /\ interpreter_machine_code' =
        interpreter_machine_code
            \o [i \in DOMAIN interpreter_instructions |->
                    generate(interpreter_instructions[i])]
    /\ pc' = "generate_jit_bytes_again"
    /\ UNCHANGED <<bvars, initvars, fillvars, patch_index, interpvars,
                   jit_machine_code, jit_bytes, interpreter_bytes,
                   jit_bin, interpreter_bin, fills_bin, full_bin, data_bin,
                   ss_bin, files, exc>>

GenerateJitBytesAgain ==
    /\ pc = "generate_jit_bytes_again"
    /\ jit_bytes' =
        IF config.cls \in TrampolineClasses
        THEN trampoline_generate_jit_bytes
        ELSE base_generate_jit_bytes(jit_bytes)
    /\ pc' = "generate_interpreter_bytes_again"
    /\ UNCHANGED <<bvars, initvars, fillvars, patch_index, interpvars,
                   jit_machine_code, interpreter_machine_code,
                   interpreter_bytes, jit_bin, interpreter_bin, fills_bin,
                   full_bin, data_bin, ss_bin, files, exc>>

GenerateInterpreterBytesAgain ==
    /\ pc = "generate_interpreter_bytes_again"
    /\ interpreter_bytes' =
        [i \in DOMAIN interpreter_instructions |->
            generate_bytes(interpreter_instructions[i])]
    /\ pc' = "generate_output_binary_again"
    /\ UNCHANGED <<bvars, initvars, fillvars, patch_index, interpvars,
                   jit_machine_code, interpreter_machine_code, jit_bytes,
                   jit_bin, interpreter_bin, fills_bin, full_bin, data_bin,
                   ss_bin, files, exc>>

GenerateOutputBinaryAgain ==
    /\ pc = "generate_output_binary_again"
    /\ interpreter_bin' = Join(interpreter_bytes)
    /\ fills_bin' = Join([i \in 1 .. FillSize |-> generate_bytes(Nop)])
    /\ jit_bin' = Join(jit_bytes)
    /\ full_bin' = interpreter_bin' \o fills_bin' \o jit_bin'
    /\ pc' = "emitted_again"
    /\ UNCHANGED <<bvars, initvars, fillvars, patch_index, interpvars,
                   jit_machine_code, interpreter_machine_code, jit_bytes,
                   interpreter_bytes, data_bin, ss_bin, files, exc>>

\* the steps of the second run
SecondRunSteps ==
    {"generate_data_binary", "generate_interpreter_machine_code_again",
     "generate_jit_bytes_again", "generate_interpreter_bytes_again",
     "generate_output_binary_again"}

NextEmitTwice ==
    \/ FillJitCodeLeaf
    \/ FillJitCodeMethod
    \/ FillJitCodePic
    \/ FillJitCodeReturn
    \/ PatchMethodCalls
    \/ PatchJitCallsReturn
    \/ FillInterpretationLoop
    \/ GenerateJitMachineCode
    \/ GenerateInterpreterMachineCode
    \/ GenerateJitBytes
    \/ GenerateInterpreterBytes
    \/ GenerateOutputBinary
    \/ GenerateJitMachineCodeAgain
    \/ GenerateInterpreterMachineCodeAgain
    \/ GenerateJitBytesAgain
    \/ GenerateInterpreterBytesAgain
    \/ GenerateOutputBinaryAgain

SpecEmitTwice == InitGen /\ [][NextEmitTwice]_vars

-----------------------------------------------------------------------------
(* The builder specification: each action is one call of a static method   *)
(* of InstructionBuilder on inputs drawn from the sampled sets.            *)

InitBuilder ==
    /\ call = NoCall
    /\ NoGenerator

SplitOffset ==
    /\ call.op = "init"
    /\ UNCHANGED gvars
    /\ \E offset \in Offsets :
        call' = [op |-> "split_offset", args |-> [offset |-> offset],
                 ret |-> split_offset(offset)]

BuildMethodBaseCall ==
    /\ call.op = "init"
    /\ UNCHANGED gvars
    /\ \E offset \in Offsets :
        call' = [op |-> "build_method_base_call", args |-> [offset |-> offset],
                 ret |-> build_method_base_call(offset)]

BuildMethodCall ==
    /\ call.op = "init"
    /\ UNCHANGED gvars
    /\ \E offset \in Offsets :
        call' = [op |-> "build_method_call", args |-> [offset |-> offset],
                 ret |-> build_method_call(offset)]

BuildPicCall ==
    /\ call.op = "init"
    /\ UNCHANGED gvars
    /\ \E offset \in Offsets, hit_case \in HitCases :
        call' = [op |-> "build_pic_call",
                 args |-> [offset |-> offset, hit_case |-> hit_case],
                 ret |-> build_pic_call(offset, hit_case, HIT_CASE_REG)]

BuildSwitchCase ==
    /\ call.op = "init"
    /\ UNCHANGED gvars
    /\ \E case_number \in CaseNumbers, method_offset \in SwitchOffsets,
          hit_case_reg \in SwitchRegs, cmp_reg \in SwitchRegs :
        call' = [op |-> "build_switch_case",
                 args |-> [case_number |-> case_number,
                           method_offset |-> method_offset,
                           hit_case_reg |-> hit_case_reg,
                           cmp_reg |-> cmp_reg],
                 ret |-> Returned(build_switch_case(case_number, method_offset,
                                                    hit_case_reg, cmp_reg))]

BuildPcRelativeRegSave ==
    /\ call.op = "init"
    /\ UNCHANGED gvars
    /\ \E offset \in Offsets, register \in SaveRegisters :
        call' = [op |-> "build_pc_relative_reg_save",
                 args |-> [offset |-> offset, register |-> register],
                 ret |-> build_pc_relative_reg_save(offset, register)]

BuildRandomS ==
    /\ call.op = "init"
    /\ UNCHANGED gvars
    /\ \E registers \in RegisterLists, data_size \in DataSizes :
        \E instr \in build_random_s_instruction(registers, DATA_REG, data_size) :
            call' = [op |-> "build_random_s_instruction",
                     args |-> [registers |-> registers, data_reg |-> DATA_REG,
                               data_size |-> data_size],
                     ret |-> Returned(instr)]

BuildRandomL ==
    /\ call.op = "init"
    /\ UNCHANGED gvars
    /\ \E registers \in RegisterLists, data_size \in DataSizes :
        \E instr \in build_random_l_instruction(registers, DATA_REG, data_size) :
            call' = [op |-> "build_random_l_instruction",
                     args |-> [registers |-> registers, data_reg |-> DATA_REG,
                               data_size |-> data_size],
                     ret |-> Returned(instr)]

BuildRandomJ ==
    /\ call.op = "init"
    /\ UNCHANGED gvars
    /\ \E registers \in RegisterLists, site \in BodySites :
        /\ \E instr \in build_random_j_instruction(registers, site.max_offset) :
            call' = [op |-> "build_random_j_instruction",
                     args |-> [registers |-> registers, site |-> site,
                               max_offset |-> site.max_offset],
                     ret |-> Returned(instr)]

BuildRandomB ==
    /\ call.op = "init"
    /\ UNCHANGED gvars
    /\ \E registers \in RegisterLists, site \in BodySites :
        /\ \E instr \in build_random_b_instruction(registers, site.max_offset) :
            call' = [op |-> "build_random_b_instruction",
                     args |-> [registers |-> registers, site |-> site,
                               max_offset |-> site.max_offset],
                     ret |-> Returned(instr)]

\* build_random_instruction, with the registers of a generator
BuildRandomInstruction ==
    /\ call.op = "init"
    /\ UNCHANGED gvars
    /\ \E supplied \in SuppliedRegisters, cls \in GeneratorClasses,
          max_offset \in MaxOffsets, weights \in WeightVectors :
        LET registers == generator_registers(cls, supplied, DATA_REG,
                                             RIMI_SSP_REG)
        IN  \E built \in build_random_instruction(registers, max_offset,
                                                  DATA_REG, 8, weights) :
                call' = [op |-> "build_random_instruction",
                         args |-> [cls |-> cls, supplied |-> supplied,
                                   registers |-> registers,
                                   max_offset |-> max_offset,
                                   data_reg |-> DATA_REG, data_size |-> 8,
                                   weights |-> weights],
                         method_name |-> built.method_name,
                         ret |-> built.ret]

\* build_prologue and build_epilogue, called with the same arguments
BuildPrologueEpilogue ==
    /\ call.op = "init"
    /\ UNCHANGED gvars
    /\ \E used_s_regs \in UsedSRegs, local_var_nb \in LocalVarNbs,
          contains_call \in BOOLEAN :
        call' = [op |-> "build_prologue_epilogue",
                 args |-> [used_s_regs |-> used_s_regs,
                           local_var_nb |-> local_var_nb,
                           contains_call |-> contains_call],
                 ret |-> Returned(
                     [prologue |-> build_prologue(used_s_regs, local_var_nb,
                                                  contains_call),
                      epilogue |-> build_epilogue(used_s_regs, local_var_nb,
                                                  contains_call)])]

NextBuilder ==
    \/ BuildRandomInstruction
    \/ BuildSwitchCase
    \/ BuildPrologueEpilogue
    \/ SplitOffset
    \/ BuildMethodBaseCall
    \/ BuildMethodCall
    \/ BuildPicCall
    \/ BuildPcRelativeRegSave
    \/ BuildRandomS
    \/ BuildRandomL
    \/ BuildRandomJ
    \/ BuildRandomB

SpecBuilder == InitBuilder /\ [][NextBuilder]_vars

-----------------------------------------------------------------------------
(* gigue/disassembler.py.  A 32-bit word is the wide value <<pages, rest>>, *)
(* pages its bits 31..12 and rest its bits 11..0.                           *)

\* opcode7, funct3 and funct7 of the mnemonics disassembled here, and their
\* format
INSTRUCTIONS_INFO(name) ==
    CASE name = "add"   -> [type |-> "R", opcode7 |-> 51, opcode3 |-> 0, top7 |-> 0]
      [] name = "sub"   -> [type |-> "R", opcode7 |-> 51, opcode3 |-> 0, top7 |-> 32]
      [] name = "mulw"  -> [type |-> "R", opcode7 |-> 59, opcode3 |-> 0, top7 |-> 1]
      [] name = "addi"  -> [type |-> "I", opcode7 |-> 19, opcode3 |-> 0, top7 |-> 0]
      [] name = "andi"  -> [type |-> "I", opcode7 |-> 19, opcode3 |-> 7, top7 |-> 0]
      [] name = "addiw" -> [type |-> "I", opcode7 |-> 27, opcode3 |-> 0, top7 |-> 0]
      [] name = "ld"    -> [type |-> "I", opcode7 |-> 3, opcode3 |-> 3, top7 |-> 0]
      [] name = "jalr"  -> [type |-> "I", opcode7 |-> 103, opcode3 |-> 0, top7 |-> 0]
      [] name = "sb"    -> [type |-> "S", opcode7 |-> 35, opcode3 |-> 0, top7 |-> 0]
      [] name = "sd"    -> [type |-> "S", opcode7 |-> 35, opcode3 |-> 3, top7 |-> 0]
      [] name = "beq"   -> [type |-> "B", opcode7 |-> 99, opcode3 |-> 0, top7 |-> 0]
      [] name = "bne"   -> [type |-> "B", opcode7 |-> 99, opcode3 |-> 1, top7 |-> 0]
      [] name = "lui"   -> [type |-> "U", opcode7 |-> 55, opcode3 |-> 0, top7 |-> 0]
      [] name = "auipc" -> [type |-> "U", opcode7 |-> 23, opcode3 |-> 0, top7 |-> 0]
      [] name = "jal"   -> [type |-> "J", opcode7 |-> 111, opcode3 |-> 0, top7 |-> 0]

DisassembledNames ==
    {"add", "sub", "mulw", "addi", "andi", "addiw", "ld", "jalr", "sb", "sd",
     "beq", "bne", "lui", "auipc", "jal"}

\* 2^n
RECURSIVE Pow2(_)
Pow2(n) == IF n = 0 THEN 1 ELSE 2 * Pow2(n - 1)

\* bits hi..lo of a non-negative value
Bits(value, hi, lo) == (value \div Pow2(lo)) % Pow2(hi - lo + 1)

\* the value of an immediate on n bits (two's complement)
ToUnsigned(imm, n) == imm % Pow2(n)

\* Instruction.generate(): the word of an instruction, per the RISC-V layout
\* of its format; bits 31..12 then bits 11..0
encode(instr) ==
    LET info == INSTRUCTIONS_INFO(instr.name)
        regs == instr.rs2 * 256 + instr.rs1 * 8 + info.opcode3
    IN  CASE info.type = "R" ->
                << info.top7 * 8192 + regs, Bits(instr.rd, 4, 0) * 128 + info.opcode7 >>
          [] info.type = "I" ->
                << ToUnsigned(instr.imm, 12) * 256 + instr.rs1 * 8 + info.opcode3,
                   Bits(instr.rd, 4, 0) * 128 + info.opcode7 >>
          [] info.type = "S" ->
                << Bits(ToUnsigned(instr.imm, 12), 11, 5) * 8192 + regs,
                   Bits(ToUnsigned(instr.imm, 12), 4, 0) * 128 + info.opcode7 >>
          [] info.type = "B" ->
                << Bits(ToUnsigned(instr.imm, 13), 12, 12) * 524288
                       + Bits(ToUnsigned(instr.imm, 13), 10, 5) * 8192 + regs,
                   Bits(ToUnsigned(instr.imm, 13), 4, 1) * 256
                       + Bits(ToUnsigned(instr.imm, 13), 11, 11) * 128
                       + info.opcode7 >>
          [] info.type = "U" ->
                << instr.imm_pages, Bits(instr.rd, 4, 0) * 128 + info.opcode7 >>
          [] info.type = "J" ->
                << Bits(ToUnsigned(instr.imm, 21), 20, 20) * 524288
                       + Bits(ToUnsigned(instr.imm, 21), 10, 1) * 512
                       + Bits(ToUnsigned(instr.imm, 21), 11, 11) * 256
                       + Bits(ToUnsigned(instr.imm, 21), 19, 12),
                   Bits(instr.rd, 4, 0) * 128 + info.opcode7 >>

\* Disassembler.extract_info: (instruction & (mask << shift)) >> shift
extract_info(instruction, size, shift) ==
    IF shift >= 12
    THEN (instruction[1] \div Pow2(shift - 12)) % Pow2(size)
    ELSE ((instruction[1] % Pow2(size)) * Pow2(12 - shift)
              + instruction[2] \div Pow2(shift)) % Pow2(size)

extract_opcode7(instruction) == extract_info(instruction, 7, 0)

extract_opcode3(instruction) == extract_info(instruction, 3, 12)

extract_imm_i(instruction) == extract_info(instruction, 12, 20)

extract_rd(instruction) == extract_info(instruction, 5, 7)

extract_rs1(instruction) == extract_info(instruction, 5, 15)

extract_rs2(instruction) == extract_info(instruction, 5, 20)

\* gigue.constants.find_instr_for_opcode: the format of an opcode, "None" for
\* an opcode of no instruction
find_instr_for_opcode(opcode) ==
    LET known == {n \in DisassembledNames : INSTRUCTIONS_INFO(n).opcode7 = opcode}
    IN  IF known = {} THEN "None"
        ELSE INSTRUCTIONS_INFO(CHOOSE n \in known : TRUE).type

\* get_instruction_type: find_instr_for_opcode(instruction & 0x3F)
get_instruction_type(instruction) ==
    find_instr_for_opcode(instruction[2] % 64)

disassemble_r_instruction(instruction) ==
    [kind |-> "R",
     opcode7 |-> extract_opcode7(instruction),
     opcode3 |-> extract_opcode3(instruction),
     rd |-> extract_rd(instruction),
     rs1 |-> extract_rs1(instruction),
     rs2 |-> extract_rs2(instruction)]

disassemble_i_instruction(instruction) ==
    [kind |-> "I",
     opcode7 |-> extract_opcode7(instruction),
     opcode3 |-> extract_opcode3(instruction),
     rd |-> extract_rd(instruction),
     rs1 |-> extract_rs1(instruction),
     imm |-> extract_imm_i(instruction)]

disassemble(instruction) ==
    LET instr_type == get_instruction_type(instruction)
    IN  IF instr_type = "R"
        THEN Returned(disassemble_r_instruction(instruction))
        ELSE IF instr_type = "I"
        THEN Returned(disassemble_i_instruction(instruction))
        ELSE IF instr_type \in {"J", "U", "S"}
        THEN Returned(disassemble_r_instruction(instruction))
        ELSE Raised("NotImplementedError")

\* the instructions disassembled: every format, registers and immediates at
\* the ends of their ranges
DisassembledRegisters == {0, 10, 31}

DisassembledInstructions ==
    { RInstruction(n, rd, rs1, rs2) :
        n \in {"add", "sub", "mulw"}, rd \in DisassembledRegisters,
        rs1 \in DisassembledRegisters, rs2 \in DisassembledRegisters }
    \cup { IInstruction(n, rd, rs1, imm) :
        n \in {"addi", "andi", "addiw", "ld", "jalr"},
        rd \in DisassembledRegisters, rs1 \in DisassembledRegisters,
        imm \in {0, 1, 255, 2047} }
    \cup { SInstruction(n, rs1, rs2, imm) :
        n \in {"sb", "sd"}, rs1 \in DisassembledRegisters,
        rs2 \in DisassembledRegisters, imm \in {0, 8, 2040} }
    \cup { BInstruction(n, rs1, rs2, imm) :
        n \in {"beq", "bne"}, rs1 \in DisassembledRegisters,
        rs2 \in DisassembledRegisters, imm \in {4, 8, 4094} }
    \cup { UInstruction(n, rd, imm) :
        n \in {"lui", "auipc"}, rd \in DisassembledRegisters,
        imm \in {<<0, 0>>, <<1, 0>>, <<1048575, 0>>} }
    \cup { JInstruction("jal", rd, imm) :
        rd \in DisassembledRegisters, imm \in {4, 256, 1048572} }

\* Disassembler().disassemble(word) and get_instruction_type(word) on the
\* word of an instruction
Disassemble ==
    /\ call.op = "init"
    /\ UNCHANGED gvars
    /\ \E instr \in DisassembledInstructions :
        call' = [op |-> "disassemble",
                 args |-> [instr |-> instr, instruction |-> encode(instr)],
                 instr_type |-> get_instruction_type(encode(instr)),
                 ret |-> disassemble(encode(instr))]

SpecDisassembler == InitBuilder /\ [][Disassemble]_vars

-----------------------------------------------------------------------------
(* Claims about split_offset *)

SplitOps ==
    {"split_offset", "build_method_base_call", "build_method_call",
     "build_pic_call", "build_pc_relative_reg_save"}

\* the (low, high) pair a splitting call came to: split_offset returns it,
\* the call builders put it in their auipc and in the instruction after it
SplitLow ==
    IF call.op = "split_offset" THEN call.ret.value[1]
    ELSE call.ret.value[Len(call.ret.value)].imm

SplitHigh ==
    IF call.op = "split_offset" THEN call.ret.value[2]
    ELSE LET auipc == call.ret.value[Len(call.ret.value) - 1]
         IN  <<auipc.imm_pages, auipc.imm>>

\* what auipc (upper 20 bits, sign-extended from 32 bits) and jalr (12 bits,
\* sign-extended) add to the address of the auipc
SplitDisplacement == Wide(Sext20(SplitHigh[1]), Sext12(SplitLow))

SplitIsExact ==
    /\ SplitDisplacement = WideOfInt(call.args.offset)
    /\ SplitLow \in 0 .. 4095
    /\ (call.args.offset - SplitLow) % 4096 = 0
    /\ SplitHigh[2] = 0

\* C1 as stated: for every offset of [-2^31, 2^31) with |offset| >= 8 the
\* pair (low, high) of split_offset, combined as auipc + jalr combine them,
\* gives exactly offset, low is offset & 0xFFF and the low 12 bits of high
\* are clear.
C1_AllOffsets ==
    (call.op \in {"split_offset", "build_method_base_call"}
        /\ call.ret.exc = "None")
    => SplitIsExact

\* C1 amended: the same for the offsets of [-2^31, 2^31 - 2^11); from
\* 2^31 - 2^11 on, high becomes 0x80000000, which RV64 sign-extends to -2^31.
C1_SplitOffsetExact ==
    (call.op \in {"split_offset", "build_method_base_call"}
        /\ call.ret.exc = "None"
        /\ call.args.offset < 2147483647 - 2047)
    => SplitIsExact

\* a negative offset whose bit 11 is set was split and put in a call
C1_Witness ==
    /\ call.op = "build_method_base_call"
    /\ call.ret.exc = "None"
    /\ call.args.offset < 0
    /\ And800(call.args.offset) # 0

\* C2: a splitting call fails with WrongOffset exactly when |offset| < 8,
\* for negative offsets as for positive ones, and then returns no pair and
\* no instruction; otherwise it returns its pair or its instructions.
C2_WrongOffsetIffTooClose ==
    call.op \in SplitOps =>
        /\ (call.ret.exc = "WrongOffsetException")
             <=> (call.args.offset \in -7 .. 7)
        /\ call.ret.exc \in {"None", "WrongOffsetException"}
        /\ call.ret.exc = "WrongOffsetException" => call.ret.value = <<>>
        /\ call.ret.exc = "None" => Len(call.ret.value) \in {2, 3}

\* a call builder was given the offset -7 and raised
C2_Witness ==
    /\ call.op = "build_pic_call"
    /\ call.args.offset = -7
    /\ call.ret.exc = "WrongOffsetException"

-----------------------------------------------------------------------------
(* Claims about the random loads, stores, jumps and branches *)

\* the number of bytes a load or a store accesses (RISC-V)
AccessWidth(name) ==
    CASE name \in {"lb", "lbu", "sb"} -> 1
      [] name \in {"lh", "lhu", "sh"} -> 2
      [] name \in {"lw", "lwu", "sw"} -> 4
      [] name \in {"ld", "sd"} -> 8

MemoryOps == {"build_random_s_instruction", "build_random_l_instruction"}

\* C4 as stated: every random load or store has data_reg as its base, an
\* immediate in [0, min(data_size, 0x7FF)] that is a multiple of the access
\* width of its mnemonic, and accesses bytes inside the data region of
\* data_size bytes.
C4_AccessInsideData ==
    call.op \in MemoryOps =>
        LET instr == call.ret.value
            width == AccessWidth(instr.name)
        IN  /\ instr.rs1 = call.args.data_reg
            /\ instr.imm \in 0 .. Min(call.args.data_size, 2047)
            /\ instr.imm % width = 0
            /\ instr.imm + width <= call.args.data_size

JumpOps == {"build_random_j_instruction", "build_random_b_instruction"}

\* C5: a random jump or branch built with max_offset = the bytes remaining
\* to the end of the body takes its immediate in size_offset(max_offset): a
\* positive multiple of 4, at most max_offset; its target pc + imm is 4-byte
\* aligned and inside [method.address, method.address + total_size * 4).
C5_JumpStaysInMethod ==
    call.op \in JumpOps =>
        LET instr == call.ret.value
            site == call.args.site
            target == site.pc + instr.imm
        IN  /\ instr.imm > 0
            /\ instr.imm % 4 = 0
            /\ instr.imm <= call.args.max_offset
            /\ target % 4 = 0
            /\ target >= site.method_address
            /\ target < site.method_address
                    + MethodTotalSize(site.body_size, site.contains_call) * 4

\* a branch was built 20 bytes before the end of a body and jumps over 8
C5_Witness ==
    /\ call.op = "build_random_b_instruction"
    /\ call.args.max_offset = 20
    /\ call.ret.value.imm = 8

-----------------------------------------------------------------------------
(* Claims about main() *)

\* the steps of main(), in order
MainSteps ==
    <<"fill_jit_code", "fill_loop", "patch_jit_calls",
      "fill_interpretation_loop", "generate_jit_machine_code",
      "generate_interpreter_machine_code", "generate_jit_bytes",
      "generate_interpreter_bytes", "generate_output_binary",
      "generate_data_binary", "write_binary", "write_data_binary",
      "generate_shadowstack_binary", "write_shadowstack_binary", "done">>

\* main() has gone through a step: it is at a later one
Past(step) ==
    \E i, j \in DOMAIN MainSteps :
        MainSteps[i] = step /\ MainSteps[j] = pc /\ i < j

\* C3: after patch_jit_calls (main() is about to fill the interpretation
\* loop), every method reached from a method m, alone or
\* in a PIC, through one or more calls has a call_depth strictly smaller than
\* that of m, so that no method is among its own transitive callees, whatever
\* callees were drawn.
C3_CalleesAreShallower ==
    pc = "fill_interpretation_loop" =>
        \A m \in Range(AllMethods(jit_elements)) :
            /\ \A c \in TransitiveCallees(jit_elements, m.address) :
                MethodAt(jit_elements, c).call_depth < m.call_depth
            /\ m.address \notin TransitiveCallees(jit_elements, m.address)

\* patching is over and a method of depth 2 calls one of depth 1 that calls
\* one of depth 0
C3_Witness ==
    /\ pc = "fill_interpretation_loop"
    /\ \E m, c \in Range(AllMethods(jit_elements)) :
        /\ m.call_depth = 2
        /\ c.call_depth = 1
        /\ c.address \in Range(m.callees)
        /\ c.callees # << >>
        /\ \E l \in TransitiveCallees(jit_elements, m.address) :
            MethodAt(jit_elements, l).call_depth = 0

\* C6: once main() has generated the binaries, the bytes of the interpreter
\* and of the padding add up to jit_start_address - interpreter_start_address,
\* the padding is made of nop words only, and the length of the image is a
\* multiple of 4.
C6_JitStartsAtItsOffset ==
    Past("generate_output_binary") =>
        /\ Len(interpreter_bin) + Len(fills_bin)
            = jit_start_address - interpreter_start_address
        /\ Len(fills_bin) % 4 = 0
        /\ \A k \in DOMAIN fills_bin :
            fills_bin[k] = <<IInstruction("addi", 0, 0, 0), ((k - 1) % 4) + 1>>
        /\ Len(full_bin) % 4 = 0
        /\ SubSeq(full_bin, 1, Len(interpreter_bin) + Len(fills_bin))
            = interpreter_bin \o fills_bin

\* main() is over for addresses given unaligned, with padding in the image
C6_Witness ==
    /\ pc = "done"
    /\ config.jit_start_address % 4 # 0
    /\ fills_bin # << >>
    /\ Len(full_bin) > jit_start_address - interpreter_start_address

\* the bytes the image is to be made of
ImageBytes(words) == Join([i \in DOMAIN words |-> generate_bytes(words[i])])

ElementsBytes ==
    Join([i \in DOMAIN jit_elements |->
             ImageBytes(element_generate(jit_elements[i]))])

RECURSIVE SumElementSizes(_)
SumElementSizes(elts) ==
    IF elts = << >> THEN 0
    ELSE element_total_size(Head(elts)) + SumElementSizes(Tail(elts))

NopPadding ==
    [k \in 1 .. (jit_start_address - interpreter_start_address
                    - 4 * Len(interpreter_instructions)) |->
        <<IInstruction("addi", 0, 0, 0), ((k - 1) % 4) + 1>>]

\* C7 as stated: the image main() produces is the interpreter bytes, the nop
\* padding, the trampoline bytes (TrampolineGenerator only) and the bytes of
\* every JIT element in address order, each once; its length is
\* (jit_start_address - interpreter_start_address) + 4 * (number of
\* trampoline instructions + sum of the total_size of the elements), for
\* Generator and for TrampolineGenerator.
C7_ImageIsItsPartsOnce ==
    pc = "done" =>
        /\ Len(full_bin)
            = (jit_start_address - interpreter_start_address)
              + 4 * (Len(trampoline_instructions)
                     + SumElementSizes(jit_elements))
        /\ full_bin = ImageBytes(interpreter_instructions) \o NopPadding
                        \o ImageBytes(trampoline_instructions)
                        \o ElementsBytes
        /\ files["bin_file"] = full_bin

\* C8 as stated: throughout fill_jit_code the cursor stays within
\* jit_start_address + jit_size, so that the JIT elements never take more
\* than jit_size bytes; a configuration that cannot fit raises an error.
C8_CursorWithinBudget ==
    pc \in {"fill_loop", "patch_jit_calls"} =>
        current_address <= jit_start_address + config.jit_size

\* C9: fill_jit_code terminates, the number of methods created (the methods
\* alone and those of the PICs) never exceeds jit_nb_methods during the loop,
\* and is jit_nb_methods when fill_jit_code returns.
C9_FillCreatesExactlyNbMethods ==
    /\ [](/\ method_count <= config.jit_nb_methods
          /\ current_method_count <= config.jit_nb_methods
          /\ Len(AllMethods(jit_elements)) = method_count
          /\ Past("fill_loop") =>
                /\ method_count = config.jit_nb_methods
                /\ current_method_count = config.jit_nb_methods)
    /\ (pc \in {"fill_jit_code", "fill_loop"})
            ~> (pc \notin {"fill_jit_code", "fill_loop"})

\* fill_jit_code returned after adding a PIC of several cases, and the count
\* is the largest asked for
C9_Witness ==
    /\ pc = "patch_jit_calls"
    /\ config.jit_nb_methods >= 3
    /\ method_count = config.jit_nb_methods
    /\ \E i \in DOMAIN jit_elements :
        jit_elements[i].kind = "PIC" /\ jit_elements[i].case_number >= 2

\* the offset an auipc and the instruction after it add to the address of
\* the auipc
PairOffset(auipc, low) == Sext20(auipc.imm_pages) * 4096 + Sext12(low.imm)

\* the instructions are one call sequence per element, in the order of the
\* elements, from an address: an addi of the hit case for a PIC, then the
\* auipc pair of the offset from the address the sequence starts at, and with
\* trampolines the auipc/jalr pair to the call_jit_elt trampoline
RECURSIVE CallsMatch(_, _, _)
CallsMatch(instrs, elts, address) ==
    IF elts = << >> THEN instrs = << >>
    ELSE LET elt == Head(elts)
             tramp == config.cls \in TrampolineClasses
             k == IF elt.kind = "PIC" THEN 2 ELSE 1
             n == (k - 1) + (IF tramp THEN 4 ELSE 2)
         IN  /\ Len(instrs) >= n
             /\ elt.kind = "PIC" =>
                    /\ instrs[1].name = "addi"
                    /\ instrs[1].rd = HIT_CASE_REG
                    /\ instrs[1].rs1 = 0
                    /\ instrs[1].imm \in 1 .. elt.case_number
             /\ instrs[k].name = "auipc"
             /\ instrs[k + 1].name = IF tramp THEN "addi" ELSE "jalr"
             /\ instrs[k].rd = IF tramp THEN CALL_TMP_REG ELSE RA
             /\ instrs[k + 1].rd = instrs[k].rd
             /\ instrs[k + 1].rs1 = instrs[k].rd
             /\ PairOffset(instrs[k], instrs[k + 1]) = elt.address - address
             /\ tramp =>
                    /\ instrs[k + 2].name = "auipc"
                    /\ instrs[k + 3].name = "jalr"
                    /\ PairOffset(instrs[k + 2], instrs[k + 3])
                        = trampolines[1].address - address
             /\ CallsMatch(SubSeq(instrs, n + 1, Len(instrs)), Tail(elts),
                           address + 4 * n)

\* C10: after fill_interpretation_loop (main() is about to generate the
\* machine code), interpreter_instructions is the 12
\* instructions of build_prologue(10, 0, True), then one call sequence per
\* element of jit_elements, each element called once, in some order, then the
\* 13 instructions of build_epilogue(10, 0, True); the offset of each call is
\* the address of its element minus the address where the call sequence
\* starts.
C10_LoopCallsEachElementOnce ==
    pc = "generate_jit_machine_code" =>
        LET ii == interpreter_instructions
            n == Len(ii)
        IN  /\ n >= 25
            /\ interpreter_prologue_size = 12
            /\ interpreter_epilogue_size = 13
            /\ SubSeq(ii, 1, 12) = build_prologue(10, 0, TRUE)
            /\ ii[1] = IInstruction("addi", SP, SP, -88)
            /\ ii[12] = SInstruction("sd", SP, RA, 80)
            /\ SubSeq(ii, n - 12, n) = build_epilogue(10, 0, TRUE)
            /\ ii[n - 1] = IInstruction("addi", SP, SP, 88)
            /\ ii[n] = IInstruction("jalr", 0, RA, 0)
            /\ \E order \in Shuffles(Len(jit_elements)) :
                CallsMatch(SubSeq(ii, 13, n - 13),
                           [i \in DOMAIN jit_elements |-> jit_elements[order[i]]],
                           interpreter_start_address + 48)

\* the loop was filled for three elements, one of them a PIC, and calls the
\* last of them first
C10_Witness ==
    /\ pc = "generate_jit_machine_code"
    /\ Len(jit_elements) = 3
    /\ \E i \in DOMAIN jit_elements : jit_elements[i].kind = "PIC"
    /\ \E k \in {13, 14} :
        /\ interpreter_instructions[k].name = "auipc"
        /\ PairOffset(interpreter_instructions[k],
                      interpreter_instructions[k + 1])
            = jit_elements[3].address - (interpreter_start_address + 48)

\* C11: fill_interpretation_loop raises WrongAddress whenever the loop it
\* built ends beyond jit_start_address (interpreter_start_address + 4 * the
\* number of its instructions > jit_start_address), and when it returns the
\* loop ends at or before jit_start_address, so that in an image the
\* interpreter bytes never reach into the JIT bytes.
C11_LoopNeverOverwritesJit ==
    /\ interpreter_epilogue_size # 0 =>
        /\ (interpreter_start_address + 4 * Len(interpreter_instructions)
                > jit_start_address)
            <=> (pc = "raised" /\ exc = "WrongAddressException")
        /\ pc # "raised" =>
            interpreter_start_address + 4 * Len(interpreter_instructions)
                <= jit_start_address
    /\ Past("fill_interpretation_loop") => interpreter_epilogue_size # 0
    /\ Past("generate_output_binary") =>
        /\ Len(interpreter_bin) <= jit_start_address - interpreter_start_address
        /\ Len(interpreter_bin) = 4 * Len(interpreter_instructions)

\* the loop was built whole, ends beyond jit_start_address, and
\* fill_interpretation_loop raised
C11_Witness ==
    /\ pc = "raised"
    /\ exc = "WrongAddressException"
    /\ interpreter_epilogue_size = 13
    /\ interpreter_start_address + 4 * Len(interpreter_instructions)
        > jit_start_address

\* the errors the steps of main() raise
ErrorKinds ==
    {"WrongAddressException", "WrongOffsetException", "EmptySectionException",
     "CallNumberException", "RecursiveCallException", "MutualCallException"}

\* C12: when a step of main() before the writes raises, the error leaves
\* main(): no later step runs, and none of write_binary, write_data_binary and
\* write_shadowstack_binary has run, so that no file is written.
C12_NoFileOnFailure ==
    /\ [](pc = "raised" =>
            /\ exc \in ErrorKinds
            /\ files = << >>
            /\ full_bin = << >>)
    /\ [](pc # "raised" => exc = "None")
    /\ [](files # << >> => Past("generate_data_binary"))
    /\ [][pc # "raised"]_vars

\* fill_interpretation_loop raised WrongOffset in the middle of the loop
C12_Witness ==
    /\ pc = "raised"
    /\ exc = "WrongOffsetException"
    /\ interpreter_instructions # << >>
    /\ jit_elements # << >>
    /\ files = << >>

-----------------------------------------------------------------------------
(* Claims about the prologue, the epilogue and the switch case: the         *)
(* instructions are run on an RV64 machine of registers, 8-byte memory      *)
(* slots and a program counter.                                             *)

\* the machine on entry: every register holds a value of its own, sp an
\* aligned address, the memory nothing
EntryMachine ==
    [regs |-> [r \in 0 .. 31 |->
                  IF r = 0 THEN 0 ELSE IF r = SP THEN 8192 ELSE 1000 + r],
     mem |-> << >>,
     stores |-> << >>,
     pc |-> 0,
     linked |-> FALSE]

SetReg(regs, rd, value) == IF rd = 0 THEN regs ELSE [regs EXCEPT ![rd] = value]

\* one instruction at the program counter (addi, auipc, sd, ld, bne, jal,
\* jalr)
Execute(m, i) ==
    LET address == m.regs[i.rs1] + Sext12(i.imm) IN
    CASE i.name = "auipc" ->
            [m EXCEPT !.regs = SetReg(m.regs, i.rd,
                                      m.pc + Sext20(i.imm_pages) * 4096 + i.imm),
                      !.pc = m.pc + 4]
      [] i.name = "addi" ->
            [m EXCEPT !.regs = SetReg(m.regs, i.rd, m.regs[i.rs1] + Sext12(i.imm)),
                      !.pc = m.pc + 4]
      [] i.name = "sd" ->
            [m EXCEPT !.mem = [a \in DOMAIN m.mem \cup {address} |->
                                  IF a = address THEN m.regs[i.rs2]
                                  ELSE m.mem[a]],
                      !.stores = Append(m.stores, address),
                      !.pc = m.pc + 4]
      [] i.name = "ld" ->
            [m EXCEPT !.regs = SetReg(m.regs, i.rd,
                                      IF address \in DOMAIN m.mem
                                      THEN m.mem[address] ELSE -1),
                      !.pc = m.pc + 4]
      [] i.name = "bne" ->
            [m EXCEPT !.pc = IF m.regs[i.rs1] # m.regs[i.rs2]
                             THEN m.pc + i.imm ELSE m.pc + 4]
      [] i.name = "jal" ->
            [m EXCEPT !.regs = SetReg(m.regs, i.rd, m.pc + 4),
                      !.linked = m.linked \/ i.rd # 0,
                      !.pc = m.pc + i.imm]
      [] i.name = "jalr" ->
            [m EXCEPT !.regs = SetReg(m.regs, i.rd, m.pc + 4),
                      !.linked = m.linked \/ i.rd # 0,
                      !.pc = address]

\* the instructions of a straight sequence, one after the other
RECURSIVE Run(_, _)
Run(m, instructions) ==
    IF instructions = << >> THEN m
    ELSE Run(Execute(m, Head(instructions)), Tail(instructions))

\* the code between prologue and epilogue overwrites every register but sp
Clobbered(m) ==
    [m EXCEPT !.regs = [r \in 0 .. 31 |-> IF r = SP THEN m.regs[r] ELSE 0]]

RECURSIVE RunAt(_, _, _, _)
RunAt(m, base, instructions, steps) ==
    IF steps = 0 \/ m.pc < base \/ m.pc >= base + 4 * Len(instructions)
    THEN m
    ELSE LET i == instructions[(m.pc - base) \div 4 + 1] IN
         IF i.name = "jal" THEN Execute(m, i)
         ELSE RunAt(Execute(m, i), base, instructions, steps - 1)

\* the machine at address base, the hit case register holding hit
SwitchEntry(base, hit_case_reg, hit) ==
    [EntryMachine EXCEPT !.pc = base,
                         !.regs = SetReg(EntryMachine.regs, hit_case_reg, hit)]

-----------------------------------------------------------------------------
(* Claims about patching *)

-----------------------------------------------------------------------------
(* Claims about the shadow stack binary *)

AllZero(bytes) == \A i \in DOMAIN bytes : bytes[i] = 0

\* the shadow stack binary was written, after the two other outputs
ShadowStackWritten ==
    /\ pc = "done"
    /\ DOMAIN files = {"bin_file", "data_bin_file", "ss_bin_file"}
    /\ files["ss_bin_file"] = ss_bin

-----------------------------------------------------------------------------
(* Claims about the methods the generator creates *)

\* C18: every method the generator created has call_depth >= 1 exactly when
\* it has call_number >= 1, and once patch_jit_calls has returned every
\* method with call_number >= 1 has its callees.
C18_DepthIffCalls ==
    /\ \A k \in DOMAIN AllMethods(jit_elements) :
        LET m == AllMethods(jit_elements)[k]
        IN  m.call_depth >= 1 <=> m.call_number >= 1
    /\ Past("patch_jit_calls") =>
        \A k \in DOMAIN AllMethods(jit_elements) :
            LET m == AllMethods(jit_elements)[k]
            IN  m.call_number >= 1 => Len(m.callees) = m.call_number

\* C19: every method the generator created has
\* call_number * call_size <= body_size, and the generator never stops on the
\* CallNumber error of the Method constructor.
C19_CallsFitInBody ==
    /\ \A k \in DOMAIN AllMethods(jit_elements) :
        LET m == AllMethods(jit_elements)[k]
        IN  /\ m.call_number * m.call_size <= m.body_size
            /\ m.call_size = call_size
    /\ exc # "CallNumberException"

\* a method was created with as many calls as its body holds, the body being
\* no multiple of the size of a call
C19_Witness ==
    \E k \in DOMAIN AllMethods(jit_elements) :
        LET m == AllMethods(jit_elements)[k]
        IN  /\ m.call_number >= 1
            /\ m.body_size % m.call_size # 0
            /\ m.call_number = m.body_size \div m.call_size

-----------------------------------------------------------------------------
(* Claims about the layout of the JIT region *)

\* C20: the trampolines of a TrampolineGenerator are those of
\* DEFAULT_TRAMPOLINES in order, one after the other from jit_start_address
\* (a Generator has none); the first element starts right after them; every
\* other element starts where the one before ends, 4 * total_size bytes after
\* its address, and the cursor of fill_jit_code stands at the end of the last
\* one; the methods of a PIC lie inside it in the same way; every address is
\* a multiple of 4.
C20_JitRegionContiguous ==
    /\ trampolines # << >> =>
        /\ config.cls \in TrampolineClasses
        /\ Len(trampolines) = Len(DEFAULT_TRAMPOLINES)
        /\ trampolines[1].address = jit_start_address
        /\ \A i \in DOMAIN trampolines :
            /\ trampolines[i].name = DEFAULT_TRAMPOLINES[i]
            /\ trampolines[i].address % 4 = 0
            /\ Len(trampolines[i].instructions) > 0
            /\ i > 1 => trampolines[i].address =
                            trampolines[i - 1].address
                                + 4 * Len(trampolines[i - 1].instructions)
        /\ trampoline_instructions = TrampolineInstructions(trampolines)
    /\ jit_elements # << >> =>
        /\ config.cls \in TrampolineClasses <=> trampolines # << >>
        /\ jit_elements[1].address =
               jit_start_address + 4 * Len(trampoline_instructions)
        /\ \A i \in DOMAIN trampolines :
            trampolines[i].address + 4 * Len(trampolines[i].instructions)
                <= jit_elements[1].address
        /\ \A i \in DOMAIN jit_elements :
            LET elt == jit_elements[i]
            IN  /\ elt.address % 4 = 0
                /\ i > 1 =>
                    /\ element_total_size(jit_elements[i - 1]) > 0
                    /\ elt.address = jit_elements[i - 1].address
                           + 4 * element_total_size(jit_elements[i - 1])
                /\ elt.methods[1].address =
                       elt.address + 4 * PicSwitchSize(elt.case_number)
                /\ \A k \in DOMAIN elt.methods :
                    /\ elt.methods[k].address % 4 = 0
                    /\ k > 1 => elt.methods[k].address =
                                    elt.methods[k - 1].address
                                    + 4 * method_total_size(elt.methods[k - 1])
        /\ pc # "raised" =>
            current_address =
                jit_elements[Len(jit_elements)].address
                    + 4 * element_total_size(jit_elements[Len(jit_elements)])

\* a TrampolineGenerator placed its two trampolines, a leaf method and a PIC
C20_Witness ==
    /\ pc = "patch_jit_calls"
    /\ Len(trampolines) = 2
    /\ trampolines[2].address > trampolines[1].address
    /\ Len(jit_elements) >= 2
    /\ jit_elements[1].address > trampolines[2].address
    /\ \E i \in DOMAIN jit_elements : jit_elements[i].kind = "PIC"

-----------------------------------------------------------------------------
(* Claims about the two start addresses *)

\* C22: once main() is past fill_interpretation_loop, and so for every image
\* it writes, jit_start_address > interpreter_start_address and both are
\* multiples of 4; a generator configured with interpreter_start_address >=
\* jit_start_address never gets that far: it is refused with WrongAddress at
\* construction when the interpreter starts after the JIT code, and main()
\* stops at fill_interpretation_loop at the latest when the two are equal.
C22_ImageStartsOrdered ==
    /\ (Past("fill_interpretation_loop") \/ full_bin # << >> \/ files # << >>) =>
        /\ jit_start_address > interpreter_start_address
        /\ jit_start_address % 4 = 0
        /\ interpreter_start_address % 4 = 0
        /\ config.interpreter_start_address < config.jit_start_address
    /\ config.interpreter_start_address > config.jit_start_address =>
        /\ pc = "raised"
        /\ exc = "WrongAddressException"
        /\ jit_elements = << >>
    /\ config.interpreter_start_address = config.jit_start_address =>
        /\ pc \in {"fill_jit_code", "fill_loop", "patch_jit_calls",
                   "fill_interpretation_loop", "raised"}
        /\ (pc = "raised" /\ interpreter_instructions # << >>) =>
            exc = "WrongAddressException"

\* fill_interpretation_loop raised WrongAddress for a generator whose two
\* regions start at the same address
C22_Witness ==
    /\ config.interpreter_start_address = config.jit_start_address
    /\ pc = "raised"
    /\ exc = "WrongAddressException"
    /\ interpreter_instructions # << >>

-----------------------------------------------------------------------------
(* Claims about build_random_instruction *)

\* the place among the seven formats R, I, U, J, B, S, L of a mnemonic
FormatOf(name) ==
    CASE name \in Range(R_INSTRUCTIONS) -> 1
      [] name \in Range(I_INSTRUCTIONS) -> 2
      [] name \in Range(U_INSTRUCTIONS) -> 3
      [] name = "jal" -> 4
      [] name \in Range(B_INSTRUCTIONS) -> 5
      [] name \in Range(S_INSTRUCTIONS) -> 6
      [] name \in Range(I_INSTRUCTIONS_LOAD) -> 7
      [] OTHER -> 0

\* C23: build_random_instruction returns an instruction of one of the seven
\* formats whose weight is positive, built by the builder of that format, and
\* it does so whenever one weight at least is positive; a format of weight 0
\* is never chosen.
C23_WeightedFormatChoice ==
    call.op = "build_random_instruction" =>
        LET weights == call.args.weights IN
        IF SumSeq(weights) > 0
        THEN /\ call.ret.exc = "None"
             /\ \E k \in DOMAIN RANDOM_BUILDERS :
                 /\ call.method_name = RANDOM_BUILDERS[k]
                 /\ weights[k] > 0
                 /\ FormatOf(call.ret.value.name) = k
        ELSE call.ret.exc = "ValueError"

\* a load was built under weights that are 0 for R, U and S
C23_Witness ==
    /\ call.op = "build_random_instruction"
    /\ call.args.weights = <<0, 3, 0, 1, 1, 0, 2>>
    /\ call.method_name = "build_random_l_instruction"
    /\ call.ret.value.name \in Range(I_INSTRUCTIONS_LOAD)

RandomOps ==
    {"build_random_instruction", "build_random_s_instruction",
     "build_random_l_instruction", "build_random_j_instruction",
     "build_random_b_instruction"}

\* C24: the immediate of every instruction a random builder returns fits the
\* signed width of its format: 12 bits for I, loads and S, 13 bits for B,
\* 21 bits for J, and 20 bits of upper immediate for U.
C24_ImmediatesFitFormat ==
    (call.op \in RandomOps /\ call.ret.exc = "None") =>
        LET instr == call.ret.value
            format == FormatOf(instr.name)
        IN  /\ format \in {2, 6, 7} => (-2048 <= instr.imm /\ instr.imm <= 2047)
            /\ format = 3 => (0 <= instr.imm_pages /\ instr.imm_pages < 1048576)
            /\ format = 5 => (-4096 <= instr.imm /\ instr.imm <= 4094)
            /\ format = 4 => (-1048576 <= instr.imm /\ instr.imm <= 1048574)

\* C25: the registers a generator hands to the builders hold neither the
\* data register nor, for a RIMI generator, the shadow stack pointer,
\* whatever list it was built with; a random instruction has its sampled
\* operands among them, and the data register only as the base (rs1) of a
\* load or a store.
C25_DataRegOnlyAsBase ==
    call.op = "build_random_instruction" =>
        LET a == call.args
            reserved == {a.data_reg} \cup
                        (IF a.cls \in RimiClasses THEN {RIMI_SSP_REG} ELSE {})
        IN  /\ Range(a.registers) = Range(a.supplied) \ reserved
            /\ call.ret.exc = "None" =>
                LET instr == call.ret.value
                    format == FormatOf(instr.name)
                IN  /\ instr.rd \notin reserved
                    /\ instr.rs2 \notin reserved
                    /\ format \in {6, 7} <=> instr.rs1 = a.data_reg
                    /\ format \notin {6, 7} => instr.rs1 \notin reserved
                    /\ format \in {1, 2, 3, 4, 7} => instr.rd \in Range(a.registers)
                    /\ format \in {1, 2, 5} => instr.rs1 \in Range(a.registers)
                    /\ format \in {1, 5, 6} => instr.rs2 \in Range(a.registers)

\* a RIMI generator built with the data register and the shadow stack pointer
\* in its list had a store built on the data register
C25_Witness ==
    /\ call.op = "build_random_instruction"
    /\ call.args.cls = "RIMIFullTrampolineGenerator"
    /\ call.args.supplied = <<31, 28, 10>>
    /\ call.args.registers = <<10>>
    /\ call.ret.exc = "None"
    /\ call.ret.value.name = "sd"
    /\ call.ret.value.rs1 = DATA_REG
    /\ call.ret.value.rs2 = 10

\* C26: no jump and no branch comes out of build_random_instruction with an
\* offset of 0 or an offset beyond max_offset; with max_offset < 4 the J and
\* B builders return no instruction and another format is drawn.
C26_NoJumpWithoutRoom ==
    (call.op = "build_random_instruction" /\ call.ret.exc = "None") =>
        LET instr == call.ret.value
        IN  FormatOf(instr.name) \in {4, 5} =>
                /\ instr.imm # 0
                /\ instr.imm <= call.args.max_offset
                /\ call.args.max_offset >= 4

-----------------------------------------------------------------------------
(* Claims about the disassembler *)

\* C27: for an instruction of any format R, I, S, B, U, J, the word encoded
\* per the RISC-V layout is given its format by get_instruction_type,
\* disassemble returns a result for it, and the opcode7, funct3, rd, rs1, rs2
\* and I-immediate extracted are the fields of the instruction.
C27_DisassembleRecovers ==
    call.op = "disassemble" =>
        LET instr == call.args.instr
            info == INSTRUCTIONS_INFO(instr.name)
            word == call.args.instruction
        IN  /\ call.instr_type = info.type
            /\ call.ret.exc = "None"
            /\ extract_opcode7(word) = info.opcode7
            /\ call.ret.value.opcode7 = info.opcode7
            /\ info.type \in {"R", "I", "S", "B"} =>
                /\ extract_opcode3(word) = info.opcode3
                /\ extract_rs1(word) = instr.rs1
            /\ info.type \in {"R", "I", "U", "J"} => extract_rd(word) = instr.rd
            /\ info.type \in {"R", "S", "B"} => extract_rs2(word) = instr.rs2
            /\ info.type = "I" =>
                /\ extract_imm_i(word) = ToUnsigned(instr.imm, 12)
                /\ call.ret.value.imm = ToUnsigned(instr.imm, 12)

-----------------------------------------------------------------------------
(* Claims about the call sequences: the instructions of a call are run on   *)
(* the RV64 machine from the address A they are placed at.                  *)

\* the address a call sequence is placed at: above 0 when the callee is below
\* it, so that A + offset is an address of the 32-bit space
CallSite(offset) == IF offset < 0 THEN 8192 ELSE 0

CallOps == {"build_method_base_call", "build_method_call", "build_pic_call"}

\* the machine after the call sequence returned by the builder ran from A
AfterCall ==
    LET A == CallSite(call.args.offset) IN
    RunAt([EntryMachine EXCEPT !.pc = A], A, call.ret.value,
          Len(call.ret.value))

\* C28: a call sequence built for offset = E.address - A and placed at A
\* (auipc at A for a method call; addi of the hit case at A and auipc at
\* A + 4 for a PIC call) ends with the program counter at E.address =
\* A + offset and ra at the instruction after the sequence; the PIC call
\* also leaves hit_case in the hit case register.  (From 2^31 - 2^11 on the
\* sum of the pair is compared as a wide value.)
C28_CallLandsOnElement ==
    (call.op \in CallOps /\ call.ret.exc = "None") =>
        LET offset == call.args.offset
            A == CallSite(offset)
            n == Len(call.ret.value)
        IN  IF offset < 2147483647 - 2047
            THEN /\ n = IF call.op = "build_pic_call" THEN 3 ELSE 2
                 /\ AfterCall.pc = A + offset
                 /\ AfterCall.regs[RA] = A + 4 * n
                 /\ call.op = "build_pic_call" =>
                        AfterCall.regs[HIT_CASE_REG] = call.args.hit_case
            ELSE SplitDisplacement = WideOfInt(offset)

-----------------------------------------------------------------------------
(* Claims about extract_callees *)

\* the methods patch_jit_calls went past and had to patch
Patched ==
    {k \in DOMAIN AllMethods(jit_elements) :
        k < patch_index /\ AllMethods(jit_elements)[k].call_depth >= 1}

\* C29: while patch_jit_calls runs, the first leaf method is in
\* call_depth_dict at depth 0, so that the callees extract_callees chooses
\* among for a method of call_depth >= 1 are never none; every method patched
\* has exactly call_number callees, all of them registered at a smaller
\* depth, and the generator never stops on the IndexError of a choice among
\* nothing.
C29_CalleePopulationNonEmpty ==
    /\ exc # "IndexError"
    /\ pc = "patch_jit_calls" =>
        /\ 0 \in DOMAIN call_depth_dict
        /\ call_depth_dict[0][1] = AllMethods(jit_elements)[1].address
        /\ AllMethods(jit_elements)[1].call_depth = 0
        /\ \A k \in DOMAIN AllMethods(jit_elements) :
            LET m == AllMethods(jit_elements)[k]
            IN  m.call_depth >= 1 =>
                    /\ possible_callees(m.call_depth) # << >>
                    /\ extract_callees(m.call_depth, m.call_number) # {}
        /\ \A k \in Patched :
            LET m == AllMethods(jit_elements)[k]
            IN  /\ Len(m.callees) = m.call_number
                /\ Range(m.callees)
                    \subseteq Range(possible_callees(m.call_depth))

\* patch_jit_calls gave a method two calls of the same callee
C29_Witness ==
    /\ pc = "patch_jit_calls"
    /\ \E k \in Patched :
        LET m == AllMethods(jit_elements)[k]
        IN  /\ m.call_number >= 2
            /\ m.callees[1] = m.callees[2]

-----------------------------------------------------------------------------
(* Claims about the emission *)

\* C30: a step of the second run of the emission leaves jit_bytes,
\* interpreter_bytes, fills_bin and full_bin as the first run made them, for
\* a Generator and for a TrampolineGenerator.
C30_EmissionIdempotent ==
    [][(pc \in SecondRunSteps) =>
          (jit_bytes' = jit_bytes /\ interpreter_bytes' = interpreter_bytes
              /\ fills_bin' = fills_bin /\ full_bin' = full_bin)]_vars

=============================================================================
